---- MODULE Spec2Model ----
(***************************************************************************)
(* Model of the hype-copy decision core:                                   *)
(*   src/src/trade_executor.py    TradeExecutor (sizing, copy_trade)       *)
(*   src/src/position_limiter.py  PositionLimiter                          *)
(*   src/src/portfolio_executor.py PortfolioExecutor (rebalance_position)  *)
(*                                                                         *)
(* and of the scripts that place orders on the same account:              *)
(*   src/open-eth.py, src/test_buy.py, src/sync-positions.py,              *)
(*   src/open-remaining-positions.py                                       *)
(*                                                                         *)
(* The Python code computes on floats (IEEE-754 doubles).  Quantities are  *)
(* carried as exact rationals <<n, d>> (d > 0, lowest terms).  Where two   *)
(* exact values are equal, or a value is a decimal tie, the result of the  *)
(* code depends on the doubles: there the comparisons of trade_executor.py *)
(* and portfolio_executor.py and every round() are computed on doubles     *)
(* [neg, m, e], operation by operation, rounded to nearest, ties to even.  *)
(* The quantity of a rebalance order is the exact value its unrounded      *)
(* double approximates.                                                    *)
(*                                                                         *)
(* A run of a program is a sequence of blocking calls to the exchange:     *)
(* reads and orders of one run are separate steps, and other programs act  *)
(* on the account between them.                                            *)
(***************************************************************************)
EXTENDS Integers, Sequences, FiniteSets, TLC

VARIABLES
    cfg,              \* TradeExecutor configuration read in __init__ / os.getenv
    accountValue,     \* exchange side: marginSummary.accountValue of the follower
    sizeCall,         \* the last calculate_position_size call and its result
    now,              \* wall clock read by datetime.now(), in seconds
    trade_history,    \* PositionLimiter.trade_history   coin -> list of timestamps
    last_trade_time,  \* PositionLimiter.last_trade_time coin -> timestamp
    position_values,  \* PositionLimiter.position_values coin -> value
    ticks,            \* index of the current instant in the timeline
    lastOp,           \* the last PositionLimiter call: arguments, result, state before
    firstCallAt,      \* coin -> instant of the first should_allow_trade call (when logged)
    recordLog,        \* coin -> instants of every record_trade of a gated run, never pruned
    positions,        \* exchange side: coin -> signed position size (szi), 0 when flat
    outcome,          \* the copy_trade invocation of this run and what it returned
    rebalances,       \* the rebalance_position invocations so far and what they returned
    script            \* the last run of another order-placing script: its pending orders

sizingVars  == <<cfg, accountValue, sizeCall>>
limiterVars == <<now, trade_history, last_trade_time, position_values, ticks, lastOp>>
logVars     == <<firstCallAt, recordLog>>
execVars    == <<positions, outcome, rebalances, script>>
vars == <<cfg, accountValue, sizeCall, now, trade_history, last_trade_time,
          position_values, ticks, lastOp, firstCallAt, recordLog, positions, outcome,
          rebalances, script>>

-----------------------------------------------------------------------------
(* Exact rational arithmetic standing for Python float arithmetic.         *)

Abs(x) == IF x < 0 THEN -x ELSE x

RECURSIVE GCD(_, _)
GCD(a, b) == IF b = 0 THEN a ELSE GCD(b, a % b)

\* the rational n/d in lowest terms with a positive denominator
R(n, d) ==
    LET s == IF d < 0 THEN -1 ELSE 1
        g == GCD(Abs(n), Abs(d))
    IN  <<(s * n) \div g, (s * d) \div g>>

FromInt(i)  == <<i, 1>>
\* sums and comparisons over the least common denominator, products cross-cancelled
RAdd(a, b)  == LET g == GCD(a[2], b[2])
               IN  R(a[1] * (b[2] \div g) + b[1] * (a[2] \div g), (a[2] \div g) * b[2])
RNeg(a)     == <<0 - a[1], a[2]>>
RSub(a, b)  == RAdd(a, RNeg(b))
RMul(a, b)  == LET g1 == GCD(Abs(a[1]), b[2])
                   g2 == GCD(Abs(b[1]), a[2])
               IN  R((a[1] \div g1) * (b[1] \div g2), (a[2] \div g2) * (b[2] \div g1))
\* b is never zero: prices are positive
RDiv(a, b)  == RMul(a, IF b[1] < 0 THEN <<0 - b[2], 0 - b[1]>> ELSE <<b[2], b[1]>>)
RLt(a, b)   == LET g == GCD(a[2], b[2])
               IN  a[1] * (b[2] \div g) < b[1] * (a[2] \div g)
RLe(a, b)   == ~RLt(b, a)
RAbs(a)     == <<Abs(a[1]), a[2]>>
RMin(a, b)  == IF RLt(b, a) THEN b ELSE a

-----------------------------------------------------------------------------
(* IEEE-754 binary64 arithmetic: the arithmetic of Python floats.          *)

\* Natural numbers of any size: little-endian sequences of limbs below Base, no
\* leading zero limb (zero is the empty sequence).
LimbBits == 14
Base == 16384

Pow2(s) == <<1, 2, 4, 8, 16, 32, 64, 128, 256, 512, 1024, 2048, 4096, 8192, 16384>>[s + 1]

Max(S) == CHOOSE x \in S : \A y \in S : y <= x

\* the number of bits of n, for 0 <= n < Base
IntBitLen(n) == Cardinality({k \in 0..(LimbBits - 1) : Pow2(k) <= n})

Limb(a, i) == IF i >= 1 /\ i <= Len(a) THEN a[i] ELSE 0

BTrim(a) ==
    LET nz == {i \in 1..Len(a) : a[i] # 0}
    IN  IF nz = {} THEN << >> ELSE SubSeq(a, 1, Max(nz))

\* for 0 <= n < 2^31
BFromInt(n) == BTrim(<<n % Base, (n \div Base) % Base, n \div (Base * Base)>>)

\* for a < 2^31
BToInt(a) == Limb(a, 1) + Base * Limb(a, 2) + Base * Base * Limb(a, 3)

RECURSIVE BNormC(_, _)
\* the limbs of sum of s[i] * Base^(i-1) plus carry, for any naturals s[i]
BNormC(s, carry) ==
    IF s = << >>
    THEN IF carry = 0 THEN << >> ELSE <<carry % Base>> \o BNormC(s, carry \div Base)
    ELSE <<(Head(s) + carry) % Base>> \o BNormC(Tail(s), (Head(s) + carry) \div Base)

BCmp(a, b) ==
    IF Len(a) # Len(b) THEN (IF Len(a) < Len(b) THEN -1 ELSE 1)
    ELSE LET d == {i \in 1..Len(a) : a[i] # b[i]}
         IN  IF d = {} THEN 0 ELSE IF a[Max(d)] < b[Max(d)] THEN -1 ELSE 1

BAdd(a, b) ==
    BNormC([i \in 1..(IF Len(a) > Len(b) THEN Len(a) ELSE Len(b)) |-> Limb(a, i) + Limb(b, i)], 0)

RECURSIVE BSubB(_, _, _, _)
BSubB(a, b, i, borrow) ==
    IF i > Len(a) THEN << >>
    ELSE IF a[i] - Limb(b, i) - borrow < 0
         THEN <<a[i] - Limb(b, i) - borrow + Base>> \o BSubB(a, b, i + 1, 1)
         ELSE <<a[i] - Limb(b, i) - borrow>> \o BSubB(a, b, i + 1, 0)

\* a - b for a >= b
BSub(a, b) == BTrim(BSubB(a, b, 1, 0))

\* a * k for 0 <= k <= Base
BMulSmall(a, k) == IF k = 0 THEN << >> ELSE BNormC([i \in 1..Len(a) |-> a[i] * k], 0)

BShiftLimbs(a, w) == IF a = << >> THEN a ELSE [i \in 1..w |-> 0] \o a

RECURSIVE BColumn(_, _, _, _)
\* the sum of a[i] * b[k + 1 - i] for i from lo up
BColumn(a, b, k, i) ==
    IF i > Len(a) \/ i > k THEN 0
    ELSE a[i] * Limb(b, k + 1 - i) + BColumn(a, b, k, i + 1)

\* a * b, for a and b of at most 7 limbs
BMul(a, b) ==
    IF a = << >> \/ b = << >> THEN << >>
    ELSE BNormC([k \in 1..(Len(a) + Len(b) - 1) |-> BColumn(a, b, k, 1)], 0)

BitLen(a) == IF a = << >> THEN 0 ELSE (Len(a) - 1) * LimbBits + IntBitLen(a[Len(a)])

\* a * 2^s
BShl(a, s) == BShiftLimbs(BMulSmall(a, Pow2(s % LimbBits)), s \div LimbBits)

\* floor(a / 2^s)
BShr(a, s) ==
    LET w == s \div LimbBits
        r == s % LimbBits
    IN  BTrim([i \in 1..(Len(a) - w) |->
                 (a[i + w] \div Pow2(r)) + (Limb(a, i + w + 1) % Pow2(r)) * Pow2(LimbBits - r)])

BBit(a, i) == (Limb(a, i \div LimbBits + 1) \div Pow2(i % LimbBits)) % 2

\* a mod 2^s is not zero
BLowBitsSet(a, s) ==
    \/ \E i \in 1..(s \div LimbBits) : Limb(a, i) # 0
    \/ Limb(a, s \div LimbBits + 1) % Pow2(s % LimbBits) # 0

\* the integer nearest to a / 2^s, ties to even
BShrRound(a, s) ==
    IF s = 0 THEN a
    ELSE IF BBit(a, s - 1) = 1 /\ (BLowBitsSet(a, s - 1) \/ BBit(a, s) = 1)
         THEN BAdd(BShr(a, s), <<1>>)
         ELSE BShr(a, s)

\* the largest of d, d - 1, d - 2 whose product with v is at most r
BDigit(v, r, d) ==
    IF BCmp(BMulSmall(v, d), r) <= 0 THEN d
    ELSE IF BCmp(BMulSmall(v, d - 1), r) <= 0 THEN d - 1
    ELSE d - 2

\* r with one more limb below it
BPush(limb, r) == IF r = << >> /\ limb = 0 THEN << >> ELSE <<limb>> \o r

\* the quotient digit of r by v, at most Base - 1, estimated from the top limbs
BEstimate(v, r) ==
    LET est == (Limb(r, Len(v) + 1) * Base + Limb(r, Len(v))) \div v[Len(v)]
    IN  IF est > Base - 1 THEN Base - 1 ELSE est

RECURSIVE BDivLimbs(_, _, _, _, _)
\* one step of the division below with the quotient digit d of r2 by v
BDivDigit(a, v, w, q, r2, d) ==
    IF d = 0 THEN BDivLimbs(a, v, w - 1, IF q = << >> THEN q ELSE <<0>> \o q, r2)
    ELSE BDivLimbs(a, v, w - 1, <<d>> \o q, BSub(r2, BMulSmall(v, d)))

\* schoolbook division limb by limb from limb w of a down to limb 1, by v whose top
\* limb is at least Base / 2; q and r are the quotient and remainder of the limbs above w
BDivLimbs(a, v, w, q, r) ==
    IF w <= 0 THEN <<q, r>>
    ELSE BDivDigit(a, v, w, q, BPush(a[w], r),
                   BDigit(v, BPush(a[w], r), BEstimate(v, BPush(a[w], r))))

\* the n top limbs of a, all of a when it has no more
BTop(a, n) == SubSeq(a, IF Len(a) > n THEN Len(a) - n + 1 ELSE 1, Len(a))

BUnshift(qr, sh) == <<qr[1], BShr(qr[2], sh)>>

\* the division of a by v, both shifted left by sh bits so that the top limb of v
\* is at least Base / 2: the limbs of a above the first quotient limb start as the
\* remainder
BDivShifted(a, v, sh) ==
    BUnshift(BDivLimbs(a, v, Len(a) - Len(v) + 1, << >>, BTop(a, Len(v) - 1)), sh)

BDivNorm(a, b, sh) == BDivShifted(BShl(a, sh), BShl(b, sh), sh)

\* <<a div b, a mod b>> for b # 0
BDivMod(a, b) == BDivNorm(a, b, LimbBits - IntBitLen(b[Len(b)]))

\* an IEEE-754 binary64 number: (-1)^neg * m * 2^e with m < 2^53 (m = 0 for zero)
MantissaBits == 53

Double(neg, m, e) == [neg |-> neg, m |-> m, e |-> e]

FZero == Double(FALSE, << >>, 0)

\* the double nearest to n * 2^e (round to nearest, ties to even)
RoundBig(neg, n, e) ==
    IF n = << >> THEN FZero
    ELSE IF BitLen(n) <= MantissaBits THEN Double(neg, n, e)
    ELSE Double(neg, BShrRound(n, BitLen(n) - MantissaBits), e + BitLen(n) - MantissaBits)

\* the one element of a set of one element: in Value({Op(x) : x \in {e}}) the
\* argument e is computed once, before Op works on its value
Value(S) == CHOOSE v \in S : TRUE

FNegOf(a) == IF a.m = << >> THEN a ELSE Double(~a.neg, a.m, a.e)
FNeg(a) == Value({FNegOf(x) : x \in {a}})

FAbsOf(a) == Double(FALSE, a.m, a.e)
FAbs(a) == Value({FAbsOf(x) : x \in {a}})

FInt(i) == Double(i < 0, BFromInt(IF i < 0 THEN 0 - i ELSE i), 0)

FMulOf(a, b) == RoundBig(a.neg # b.neg, BMul(a.m, b.m), a.e + b.e)
FMul(a, b) == Value({FMulOf(x, y) : x \in {a}, y \in {b}})

\* a quotient with one more bit below it: 1 when the division left a remainder
FSticky(qr) == BAdd(BShl(qr[1], 1), IF qr[2] = << >> THEN << >> ELSE <<1>>)

\* the quotient of a * 2^k by b, and the sticky bit
FDivBits(a, b, k) == FSticky(BDivMod(BShl(a, k), b))

FDivShift(a, b, k) ==
    RoundBig(a.neg # b.neg, FDivBits(a.m, b.m, k), a.e - b.e - k - 1)

\* a / b for b # 0: two bits more than the mantissa are computed, then rounded
FDivOf(a, b) ==
    IF a.m = << >> THEN FZero
    ELSE FDivShift(a, b, IF MantissaBits + 2 + BitLen(b.m) > BitLen(a.m)
                         THEN MantissaBits + 2 + BitLen(b.m) - BitLen(a.m) ELSE 0)
FDiv(a, b) == Value({FDivOf(x, y) : x \in {a}, y \in {b}})

\* the magnitudes of a and b as multiples of 2^e, e the smaller exponent
FAlign(a, b) ==
    LET e == IF a.m = << >> THEN b.e ELSE IF b.m = << >> THEN a.e
             ELSE IF a.e < b.e THEN a.e ELSE b.e
    IN  [e |-> e, a |-> IF a.m = << >> THEN a.m ELSE BShl(a.m, a.e - e),
                  b |-> IF b.m = << >> THEN b.m ELSE BShl(b.m, b.e - e)]

FAddAligned(a, b, al) ==
    IF a.neg = b.neg THEN RoundBig(a.neg, BAdd(al.a, al.b), al.e)
    ELSE IF BCmp(al.a, al.b) >= 0 THEN RoundBig(a.neg, BSub(al.a, al.b), al.e)
    ELSE RoundBig(b.neg, BSub(al.b, al.a), al.e)

FAddOf(a, b) == FAddAligned(a, b, FAlign(a, b))
FAdd(a, b) == Value({FAddOf(x, y) : x \in {a}, y \in {b}})

FSub(a, b) == Value({FAddOf(x, FNegOf(y)) : x \in {a}, y \in {b}})

FCmpAligned(a, b, al) ==
    IF a.m = << >> /\ b.m = << >> THEN 0
    ELSE IF a.m = << >> THEN (IF b.neg THEN 1 ELSE -1)
    ELSE IF b.m = << >> THEN (IF a.neg THEN -1 ELSE 1)
    ELSE IF a.neg /\ ~b.neg THEN -1
    ELSE IF ~a.neg /\ b.neg THEN 1
    ELSE IF a.neg THEN BCmp(al.b, al.a) ELSE BCmp(al.a, al.b)

\* -1, 0, 1
FCmpOf(a, b) == FCmpAligned(a, b, FAlign(a, b))
FCmp(a, b) == Value({FCmpOf(x, y) : x \in {a}, y \in {b}})

FLt(a, b) == FCmp(a, b) < 0
FLe(a, b) == FCmp(a, b) <= 0

\* float(n/d): the double nearest to the rational; a whole number is a double
FFromRat(q) == IF q[2] = 1 THEN FInt(q[1]) ELSE FDiv(FInt(q[1]), FInt(q[2]))

RECURSIVE Pow10(_)
Pow10(p) == IF p = 0 THEN 1 ELSE 10 * Pow10(p - 1)

\* round(a, ndigits) as a whole number of units of 10^-ndigits: the exact value of
\* the double, rounded to ndigits decimals, ties to even
FRoundUnitsOf(a, ndigits) ==
    (IF a.neg THEN -1 ELSE 1) *
        BToInt(IF a.e >= 0 THEN BShl(BMul(a.m, BFromInt(Pow10(ndigits))), a.e)
               ELSE BShrRound(BMul(a.m, BFromInt(Pow10(ndigits))), 0 - a.e))
FRoundUnits(a, ndigits) == Value({FRoundUnitsOf(x, ndigits) : x \in {a}})

\* math.ceil(a) for a >= 0 below 2^31
FCeilOf(a) ==
    IF a.e >= 0 THEN BToInt(BShl(a.m, a.e))
    ELSE BToInt(BShr(a.m, 0 - a.e)) + (IF BLowBitsSet(a.m, 0 - a.e) THEN 1 ELSE 0)
FCeil(a) == Value({FCeilOf(x) : x \in {a}})

\* min(a, b) of Python: b when b < a, else a
FMin(a, b) == Value({IF FCmpOf(y, x) < 0 THEN y ELSE x : x \in {a}, y \in {b}})

\* a < b for the floats a and b whose exact values are the rationals x and y: two
\* different rationals of the model are further apart than the rounding errors of
\* the floats, so the floats are computed only when the exact values are equal
FloatLt(x, y, a, b) == IF x = y THEN FLt(a, b) ELSE RLt(x, y)

-----------------------------------------------------------------------------
(* Bounds of the model and the input domains built from them.              *)

MaxSignalSteps == 2     \* signal sizes  -50*k .. 50*k
MaxPriceSteps  == 3     \* prices        5, 10, .. 5*k

SignalSizes   == {FromInt(50 * k) : k \in (0 - MaxSignalSteps)..MaxSignalSteps}
                    \cup {FromInt(1), FromInt(5), FromInt(-20)}
Prices        == {FromInt(5 * k) : k \in 1..MaxPriceSteps}
AccountValues == {FromInt(0), FromInt(5), FromInt(20), FromInt(100), FromInt(1000)}

\* "other" stands for any unrecognised SIZING_METHOD value
SizingMethods == {"fixed_ratio", "fixed_size", "wallet_percentage", "wallet_fixed", "other"}

Configs ==
    [ sizing_method       : SizingMethods,
      account_ratio       : {R(1, 10), FromInt(1)},
      max_position_size   : {FromInt(10), FromInt(60)},
      fixed_size          : {FromInt(1), FromInt(3)},
      wallet_percentage   : {R(1, 10), R(1, 2)},
      wallet_fixed_amount : {FromInt(10), FromInt(40)} ]

-----------------------------------------------------------------------------
(* TradeExecutor.calculate_position_size                                   *)

min_order_value == 10

\* the 0.9 of "account_balance * 0.9"
SafetyFraction == R(9, 10)

\* lines 53-74: the sizing method's formula
SizeByMethod(c, signal_size, current_price, account_balance) ==
    IF c.sizing_method = "fixed_ratio"
    THEN RMul(RAbs(signal_size), c.account_ratio)
    ELSE IF c.sizing_method = "fixed_size"
    THEN c.fixed_size
    ELSE IF c.sizing_method = "wallet_percentage"
    THEN RDiv(RMul(account_balance, c.wallet_percentage), current_price)
    ELSE IF c.sizing_method = "wallet_fixed"
    THEN RDiv(RMin(c.wallet_fixed_amount, RMul(account_balance, SafetyFraction)),
              current_price)
    ELSE RMul(RAbs(signal_size), c.account_ratio)

\* mutant: the cap applied to every method, wallet methods included
ApplyMaxCap_AllMethods(c, my_size, current_price) ==
    LET max_size_in_units == RDiv(c.max_position_size, current_price)
    IN  IF RLt(max_size_in_units, my_size) THEN max_size_in_units ELSE my_size

\* lines 76-80: max position size cap, only for non-wallet methods
ApplyMaxCap(c, my_size, current_price) ==
    IF c.sizing_method \notin {"wallet_percentage", "wallet_fixed"}
    THEN LET max_size_in_units == RDiv(c.max_position_size, current_price)
         IN  IF RLt(max_size_in_units, my_size) THEN max_size_in_units ELSE my_size
    ELSE my_size

\* lines 82-87: minimum order value
ApplyMinFloor(my_size, current_price) ==
    LET order_value == RMul(my_size, current_price)
    IN  IF RLt(order_value, FromInt(min_order_value))
        THEN RDiv(FromInt(min_order_value), current_price)
        ELSE my_size

\* mutant: the final safety check left out
ApplySafetyClamp_Off(my_size, current_price, account_balance) == my_size

\* lines 89-93: final safety check against 90% of the account balance
ApplySafetyClamp(my_size, current_price, account_balance) ==
    LET final_order_value == RMul(my_size, current_price)
        max_safe_value    == RMul(account_balance, SafetyFraction)
    IN  IF RLt(max_safe_value, final_order_value)
        THEN RDiv(max_safe_value, current_price)
        ELSE my_size

\* mutant: the minimum floor applied after the safety clamp
calculate_position_size_FloorLast(c, signal_size, current_price, account_balance) ==
    ApplyMinFloor(
        ApplySafetyClamp(
            ApplyMaxCap(c, SizeByMethod(c, signal_size, current_price, account_balance),
                        current_price),
            current_price, account_balance),
        current_price)

calculate_position_size(c, signal_size, current_price, account_balance) ==
    ApplySafetyClamp(
        ApplyMinFloor(
            ApplyMaxCap(c, SizeByMethod(c, signal_size, current_price, account_balance),
                        current_price),
            current_price),
        current_price, account_balance)

\* lines 53-93 as the interpreter computes them, on doubles: the arguments are the
\* exact values of float(...) of the configuration, the signal, the mid and the
\* account value
SizeByMethodFloat(c, signal_size, current_price, account_balance) ==
    IF c.sizing_method = "fixed_size"
    THEN FFromRat(c.fixed_size)
    ELSE IF c.sizing_method = "wallet_percentage"
    THEN FDiv(FMul(FFromRat(account_balance), FFromRat(c.wallet_percentage)),
              FFromRat(current_price))
    ELSE IF c.sizing_method = "wallet_fixed"
    THEN FDiv(FMin(FFromRat(c.wallet_fixed_amount),
                   FMul(FFromRat(account_balance), FFromRat(SafetyFraction))),
              FFromRat(current_price))
    ELSE FMul(FAbs(FFromRat(signal_size)), FFromRat(c.account_ratio))

ApplyMaxCapFloat(c, my_size, current_price) ==
    IF /\ c.sizing_method \notin {"wallet_percentage", "wallet_fixed"}
       /\ FLt(FDiv(FFromRat(c.max_position_size), FFromRat(current_price)), my_size)
    THEN FDiv(FFromRat(c.max_position_size), FFromRat(current_price))
    ELSE my_size

ApplyMinFloorFloat(my_size, current_price) ==
    IF FLt(FMul(my_size, FFromRat(current_price)), FInt(min_order_value))
    THEN FDiv(FInt(min_order_value), FFromRat(current_price))
    ELSE my_size

ApplySafetyClampFloat(my_size, current_price, account_balance) ==
    IF FLt(FMul(FFromRat(account_balance), FFromRat(SafetyFraction)),
           FMul(my_size, FFromRat(current_price)))
    THEN FDiv(FMul(FFromRat(account_balance), FFromRat(SafetyFraction)),
              FFromRat(current_price))
    ELSE my_size

calculate_position_size_float(c, signal_size, current_price, account_balance) ==
    ApplySafetyClampFloat(
        ApplyMinFloorFloat(
            ApplyMaxCapFloat(c, SizeByMethodFloat(c, signal_size, current_price,
                                                  account_balance),
                             current_price),
            current_price),
        current_price, account_balance)

NoSizeCall == [called |-> FALSE]

\* one call of calculate_position_size; the balance is read fresh (line 51)
CalculatePositionSize ==
    /\ \E signal_size \in SignalSizes, current_price \in Prices :
          sizeCall' = [ called          |-> TRUE,
                        signal_size     |-> signal_size,
                        current_price   |-> current_price,
                        account_balance |-> accountValue,
                        my_size         |-> calculate_position_size(
                                                cfg, signal_size, current_price,
                                                accountValue) ]
    /\ UNCHANGED <<cfg, accountValue>>
    /\ UNCHANGED <<limiterVars, logVars, execVars>>

\* the account value moves on the exchange between calls
AccountValueChanges ==
    /\ \E v \in AccountValues : v # accountValue /\ accountValue' = v
    /\ UNCHANGED <<cfg, sizeCall>>
    /\ UNCHANGED <<limiterVars, logVars, execVars>>

-----------------------------------------------------------------------------
(* PositionLimiter                                                         *)

max_trades_per_coin_per_hour == 3
min_time_between_trades == 30
\* MAX_POSITION_PERCENT, 0.25
max_position_percent == R(1, 4)
\* timedelta(hours=1), in seconds
SecondsPerHour == 3600

MaxTicks   == 4     \* instants of the timeline after the first
MaxHistory == 3     \* recorded trades kept over all coins

Coins           == {"SOL", "ETH"}
TradeValues     == {15, 25}     \* candidate trade values offered to the limiter
RecordedValues  == {10}         \* value of an executed trade passed to record_trade
AccountBalances == {100, 200}
\* the instants (seconds) at which calls are made; later ones follow every 35 s
Timeline        == <<0, 10, 20, 35, 3600, 3610, 3635>>
Instant(k)      == IF k < Len(Timeline) THEN Timeline[k + 1]
                   ELSE Timeline[Len(Timeline)] + 35 * (k + 1 - Len(Timeline))

\* a Python dict is a function whose domain is the set of its keys
EmptyDict == [c \in {} |-> 0]
DictSet(d, k, v) == [c \in (DOMAIN d) \cup {k} |-> IF c = k THEN v ELSE d[c]]
DictDel(d, k)    == [c \in (DOMAIN d) \ {k} |-> d[c]]
DictGet(d, k, default) == IF k \in DOMAIN d THEN d[k] ELSE default

RECURSIVE SumLen(_, _)
SumLen(th, keys) ==
    IF keys = {} THEN 0
    ELSE LET k == CHOOSE x \in keys : TRUE
         IN  Len(th[k]) + SumLen(th, keys \ {k})
\* number of timestamps kept in trade_history, over all coins
HistoryKept(th) == SumLen(th, DOMAIN th)

LimiterState == [ trade_history   |-> trade_history,
                  last_trade_time |-> last_trade_time,
                  position_values |-> position_values ]

\* mutant: the minimum time taken as minutes
CooldownBlocks_Minutes(ltt, coin, current_time) ==
    /\ coin \in DOMAIN ltt
    /\ current_time - ltt[coin] < 60 * min_time_between_trades

\* lines 28-30: Check 1, time since last trade
CooldownBlocks(ltt, coin, current_time) ==
    /\ coin \in DOMAIN ltt
    /\ current_time - ltt[coin] < min_time_between_trades

\* mutant: a trade exactly one hour old is kept
PruneHistory_Inclusive(history, current_time) ==
    LET one_hour_ago == current_time - SecondsPerHour
        Recent(t)    == t >= one_hour_ago
    IN  SelectSeq(history, Recent)

\* lines 37-38: remove old trades (> 1 hour)
PruneHistory(history, current_time) ==
    LET one_hour_ago == current_time - SecondsPerHour
        Recent(t)    == t > one_hour_ago
    IN  SelectSeq(history, Recent)

\* mutant: the hourly cap is reached only above the maximum
FrequencyBlocks_Over(pruned) == Len(pruned) > max_trades_per_coin_per_hour

\* line 40: trades per hour limit, on the pruned history
FrequencyBlocks(pruned) == Len(pruned) >= max_trades_per_coin_per_hour

\* mutant: the new trade alone is compared with the limit
ExposureBlocks_TradeOnly(pv, coin, trade_value, account_balance) ==
    LET max_allowed == RMul(FromInt(account_balance), max_position_percent)
    IN  RLt(max_allowed, FromInt(trade_value))

\* mutant: a new total equal to the limit is blocked
ExposureBlocks_AtLimit(pv, coin, trade_value, account_balance) ==
    LET current_position == DictGet(pv, coin, 0)
        new_total        == current_position + trade_value
        max_allowed      == RMul(FromInt(account_balance), max_position_percent)
    IN  RLe(max_allowed, FromInt(new_total))

\* lines 45-49: Check 3, position size limit
ExposureBlocks(pv, coin, trade_value, account_balance) ==
    LET current_position == DictGet(pv, coin, 0)
        new_total        == current_position + trade_value
        max_allowed      == RMul(FromInt(account_balance), max_position_percent)
    IN  RLt(max_allowed, FromInt(new_total))

\* mutant: the history is pruned before the cooldown check
ShouldAllowOutcome_PruneFirst(th, ltt, pv, current_time, coin, trade_value, account_balance) ==
    LET th2 == IF coin \in DOMAIN th
               THEN DictSet(th, coin, PruneHistory(th[coin], current_time))
               ELSE th
    IN  IF CooldownBlocks(ltt, coin, current_time)
        THEN [result |-> FALSE, checks |-> <<"cooldown">>, trade_history |-> th2]
        ELSE IF coin \in DOMAIN th /\ FrequencyBlocks(th2[coin])
        THEN [result |-> FALSE, checks |-> <<"cooldown", "frequency">>,
              trade_history |-> th2]
        ELSE [result |-> ~ExposureBlocks(pv, coin, trade_value, account_balance),
              checks |-> <<"cooldown", "frequency", "exposure">>,
              trade_history |-> th2]

\* lines 21-55: the result, the checks evaluated in order, and the history left behind
ShouldAllowOutcome(th, ltt, pv, current_time, coin, trade_value, account_balance) ==
    IF CooldownBlocks(ltt, coin, current_time)
    THEN [result |-> FALSE, checks |-> <<"cooldown">>, trade_history |-> th]
    ELSE LET th2 == IF coin \in DOMAIN th
                    THEN DictSet(th, coin, PruneHistory(th[coin], current_time))
                    ELSE th
         IN  IF coin \in DOMAIN th /\ FrequencyBlocks(th2[coin])
             THEN [result |-> FALSE, checks |-> <<"cooldown", "frequency">>,
                   trade_history |-> th2]
             ELSE [result |-> ~ExposureBlocks(pv, coin, trade_value, account_balance),
                   checks |-> <<"cooldown", "frequency", "exposure">>,
                   trade_history |-> th2]

\* mutant: an allowed call stamps the coin's last trade time
ShouldAllowStep_Stamps(coin, trade_value, account_balance) ==
    LET out == ShouldAllowOutcome(trade_history, last_trade_time, position_values,
                                  now, coin, trade_value, account_balance)
    IN  /\ trade_history' = out.trade_history
        /\ last_trade_time' = IF out.result THEN DictSet(last_trade_time, coin, now)
                              ELSE last_trade_time
        /\ lastOp' = [ op |-> "should_allow_trade", coin |-> coin,
                       trade_value |-> trade_value,
                       account_balance |-> account_balance,
                       result |-> out.result, checks |-> out.checks,
                       before |-> LimiterState ]
        /\ UNCHANGED <<now, ticks, position_values>>
        /\ UNCHANGED <<sizingVars, execVars>>

\* one should_allow_trade call on the limiter's state
ShouldAllowStep(coin, trade_value, account_balance) ==
    LET out == ShouldAllowOutcome(trade_history, last_trade_time, position_values,
                                  now, coin, trade_value, account_balance)
    IN  /\ trade_history' = out.trade_history
        /\ lastOp' = [ op |-> "should_allow_trade", coin |-> coin,
                       trade_value |-> trade_value,
                       account_balance |-> account_balance,
                       result |-> out.result, checks |-> out.checks,
                       before |-> LimiterState ]
        /\ UNCHANGED <<now, ticks, last_trade_time, position_values>>
        /\ UNCHANGED <<sizingVars, execVars>>

should_allow_trade(coin, trade_value, account_balance) ==
    /\ ShouldAllowStep(coin, trade_value, account_balance)
    /\ UNCHANGED logVars

\* the same call, with the instant of the coin's first call noted
should_allow_trade_logged(coin, trade_value, account_balance) ==
    /\ ShouldAllowStep(coin, trade_value, account_balance)
    /\ firstCallAt' = IF coin \in DOMAIN firstCallAt THEN firstCallAt
                      ELSE DictSet(firstCallAt, coin, now)
    /\ UNCHANGED recordLog

\* lines 57-74
RecordTradeEffect(st, current_time, coin, trade_value) ==
    [ last_trade_time |-> DictSet(st.last_trade_time, coin, current_time),
      trade_history   |-> DictSet(st.trade_history, coin,
                              Append(DictGet(st.trade_history, coin, << >>),
                                     current_time)),
      position_values |-> DictSet(st.position_values, coin,
                              DictGet(st.position_values, coin, 0) + trade_value) ]

record_trade(coin, trade_value) ==
    LET new == RecordTradeEffect(LimiterState, now, coin, trade_value)
    IN  /\ HistoryKept(trade_history) < MaxHistory
        /\ last_trade_time' = new.last_trade_time
        /\ trade_history'   = new.trade_history
        /\ position_values' = new.position_values
        /\ lastOp' = [ op |-> "record_trade", coin |-> coin,
                       trade_value |-> trade_value, before |-> LimiterState ]
        /\ UNCHANGED <<now, ticks>>
        /\ UNCHANGED <<sizingVars, logVars, execVars>>

\* mutant: the reset forgets the coin altogether
ResetPositionEffect_ForgetsCoin(st, coin) ==
    [ last_trade_time |-> DictDel(st.last_trade_time, coin),
      trade_history   |-> DictDel(st.trade_history, coin),
      position_values |-> DictDel(st.position_values, coin) ]

\* lines 78-84
ResetPositionEffect(st, coin) ==
    [ last_trade_time |-> st.last_trade_time,
      trade_history   |-> st.trade_history,
      position_values |-> IF coin \in DOMAIN st.position_values
                          THEN DictDel(st.position_values, coin)
                          ELSE st.position_values ]

reset_position(coin) ==
    LET new == ResetPositionEffect(LimiterState, coin)
    IN  /\ last_trade_time' = new.last_trade_time
        /\ trade_history'   = new.trade_history
        /\ position_values' = new.position_values
        /\ lastOp' = [ op |-> "reset_position", coin |-> coin, before |-> LimiterState ]
        /\ UNCHANGED <<now, ticks>>
        /\ UNCHANGED <<sizingVars, logVars, execVars>>

\* time passes between calls
Tick ==
    /\ \E k \in (ticks + 1)..MaxTicks :
          /\ ticks' = k
          /\ now' = Instant(k)
    /\ lastOp' = [op |-> "none"]
    /\ UNCHANGED <<trade_history, last_trade_time, position_values>>
    /\ UNCHANGED <<sizingVars, logVars, execVars>>

\* the instants of a gated run: 30 s steps, then one hour after the first and 10 s on
GatedTimeline == <<0, 30, 60, 90, 3600, 3610>>

\* the caller's gate: record_trade(coin, v) right after should_allow_trade(coin, v, b)
\* returned True, as the docstrings of lines 22-24 and 58-59 intend
record_trade_gated ==
    /\ lastOp.op = "should_allow_trade"
    /\ lastOp.result
    /\ LET new == RecordTradeEffect(LimiterState, now, lastOp.coin, lastOp.trade_value)
       IN  /\ last_trade_time' = new.last_trade_time
           /\ trade_history'   = new.trade_history
           /\ position_values' = new.position_values
           /\ recordLog' = DictSet(recordLog, lastOp.coin,
                               Append(DictGet(recordLog, lastOp.coin, << >>), now))
           /\ lastOp' = [ op |-> "record_trade", coin |-> lastOp.coin,
                          trade_value |-> lastOp.trade_value, before |-> LimiterState ]
    /\ UNCHANGED <<now, ticks, firstCallAt>>
    /\ UNCHANGED <<sizingVars, execVars>>

\* time passes between the calls of a gated run; the clock never goes back
TickGated ==
    /\ \E k \in (ticks + 1)..(Len(GatedTimeline) - 1) :
          /\ ticks' = k
          /\ now' = GatedTimeline[k + 1]
    /\ lastOp' = [op |-> "none"]
    /\ UNCHANGED <<trade_history, last_trade_time, position_values>>
    /\ UNCHANGED <<sizingVars, logVars, execVars>>

NoOp == [op |-> "none"]

InitLimiter ==
    /\ now = 0
    /\ ticks = 0
    /\ trade_history = EmptyDict
    /\ last_trade_time = EmptyDict
    /\ position_values = EmptyDict
    /\ lastOp = NoOp
    /\ firstCallAt = EmptyDict
    /\ recordLog = EmptyDict

-----------------------------------------------------------------------------
(* TradeExecutor.copy_trade and execute_market_order                       *)

MaxPositionSteps == 1   \* follower positions  -2.5*k .. 2.5*k

ExecCoins  == {"SOL", "ETH"}
\* mid prices of a run; at 12 the floored size 10/12 rounds down to 0.83
ExecPrices == (Prices \ {FromInt(5)}) \cup {FromInt(12)}
\* signal sizes of a run: 5 is worth less than the minimum at ratio 0.1; 0.025 and
\* 83 are quantities whose doubles decide, at ratio 0.1 or as they are, a rounding
\* tie and a balance check on equal values
ExecSignals ==
    {FromInt(50 * k) : k \in (1 - MaxSignalSteps)..(MaxSignalSteps - 1)}
        \cup {FromInt(5), R(1, 40), FromInt(83)}
\* account values on the exchange during a run
ExecAccountValues == {FromInt(5), FromInt(100), R(249, 2)}
\* runs of other programs of the repository next to the run under study
MaxOtherRuns == 1
SzDecimals == [c \in ExecCoins |-> IF c = "SOL" THEN 2 ELSE 4]
\* line 104: precision of a coin the universe does not list
DefaultPrecision == 6
ActionTypes == {"OPEN", "INCREASE", "DECREASE", "CLOSE", "OTHER"}

\* the collaborator call of a run that misbehaves, if any: at most one per run
Faults == {"none", "positions_raise", "mids_raise", "mid_missing",
           "sizing_balance_raise", "sizing_balance_empty", "meta_raise", "meta_missing",
           "check_balance_raise", "check_balance_empty",
           "order_raise", "order_error", "order_unknown"}

\* the calls behind each network round trip of a run, in the order the run makes them
PositionFaults == {"positions_raise"}
MidFaults      == {"mids_raise", "mid_missing"}
MetaFaults     == {"meta_raise", "meta_missing"}
SizingFaults   == {"sizing_balance_raise", "sizing_balance_empty"}
CheckFaults    == {"check_balance_raise", "check_balance_empty"}
OrderFaults    == {"order_raise", "order_error", "order_unknown"}

\* Python round(x, ndigits) of the float x whose exact value is q: the exact value
\* of the double rounded to ndigits decimals.  A double is a decimal tie only when
\* q is one, and only then is the double itself looked at.
RoundFloatOf(n, d, s, x, ndigits) ==
    LET part == (n % d) * s
        fl   == (n \div d) * s + part \div d
        rem  == part % d
    IN  IF 2 * rem > d THEN R(fl + 1, s)
        ELSE IF 2 * rem < d THEN R(fl, s)
        ELSE R(FRoundUnits(x, ndigits), s)

RoundFloat(q, ndigits, x) ==
    Value({RoundFloatOf(v[1], v[2], Pow10(ndigits), x, ndigits) : v \in {q}})

\* round(x, ndigits) of the double nearest to q
RoundTo(q, ndigits) == RoundFloat(q, ndigits, FFromRat(q))

\* lines 37-46: 0.0 when the state has no marginSummary or the query raises
get_account_balance(av, read) == IF read = "ok" THEN av ELSE FromInt(0)

\* lines 97-106: szDecimals, 6 when the coin is not listed or the query raises
get_asset_precision(coin, read) ==
    IF read = "ok" THEN SzDecimals[coin] ELSE DefaultPrecision

SizingRead(fault) == IF fault = "sizing_balance_raise" THEN "raise"
                     ELSE IF fault = "sizing_balance_empty" THEN "empty" ELSE "ok"
CheckRead(fault)  == IF fault = "check_balance_raise" THEN "raise"
                     ELSE IF fault = "check_balance_empty" THEN "empty" ELSE "ok"
MetaRead(fault)   == IF fault = "meta_raise" THEN "raise"
                     ELSE IF fault = "meta_missing" THEN "missing" ELSE "ok"

Order(coin, is_buy, sz) == [coin |-> coin, is_buy |-> is_buy, sz |-> sz]

Result(success, skipped, error, orders, filled, calculated_size, order_value, sized) ==
    [ success |-> success, skipped |-> skipped, error |-> error, orders |-> orders,
      filled |-> filled, calculated_size |-> calculated_size,
      order_value |-> order_value, sized |-> sized ]

NoOrder(error, skipped) ==
    Result(FALSE, skipped, error, << >>, FALSE, FromInt(0), FromInt(0), FALSE)

\* lines 118-126: the quantity before rounding
CalculatedSize_CloseByRatio(c, size, action_type, current_price, balance) ==
    IF action_type = "OPEN"
    THEN calculate_position_size(c, size, current_price, balance)
    ELSE RMul(RAbs(size), c.account_ratio)

CalculatedSize(c, size, action_type, current_price, balance) ==
    IF action_type = "OPEN"
    THEN calculate_position_size(c, size, current_price, balance)
    ELSE IF action_type = "CLOSE"
    THEN RAbs(size)
    ELSE RMul(RAbs(size), c.account_ratio)

\* lines 118-126 on the floats
CalculatedSizeFloat(c, size, action_type, current_price, balance) ==
    IF action_type = "OPEN"
    THEN calculate_position_size_float(c, size, current_price, balance)
    ELSE IF action_type = "CLOSE"
    THEN FAbs(FFromRat(size))
    ELSE FMul(FAbs(FFromRat(size)), FFromRat(c.account_ratio))

\* line 133: order_value = rounded_size * current_price, as the float product
OrderValueFloat(rounded_size, current_price) ==
    FMul(FFromRat(rounded_size), FFromRat(current_price))

\* line 135: the minimum order value check (skipped for CLOSE)
SkipsBelowMinimum_OpenExempt(action_type, rounded_size, current_price) ==
    /\ action_type \notin {"CLOSE", "OPEN"}
    /\ FloatLt(RMul(rounded_size, current_price), FromInt(min_order_value),
               OrderValueFloat(rounded_size, current_price), FInt(min_order_value))

SkipsBelowMinimum(action_type, rounded_size, current_price) ==
    /\ action_type # "CLOSE"
    /\ FloatLt(RMul(rounded_size, current_price), FromInt(min_order_value),
               OrderValueFloat(rounded_size, current_price), FInt(min_order_value))

\* what a part of a call hands on: the Result the call returns there, or the values
\* the rest of the call works with
Ended(result) == [ended |-> TRUE, result |-> result]

Prepared(rounded_size, order_value, sized) ==
    [ended |-> FALSE, rounded_size |-> rounded_size, order_value |-> order_value,
     sized |-> sized]

\* lines 133-139: the order value and the minimum check on the rounded quantity
CheckMinimum(action_type, current_price, rounded_size) ==
    IF SkipsBelowMinimum(action_type, rounded_size, current_price)
    THEN Ended(Result(FALSE, TRUE, "below_minimum", << >>, FALSE, rounded_size,
                      RMul(rounded_size, current_price), action_type = "OPEN"))
    ELSE Prepared(rounded_size, RMul(rounded_size, current_price),
                  action_type = "OPEN")

\* lines 118-130: the quantity on the balance the sizing engine read, rounded to
\* the precision of the coin
PrepareSized(c, coin, size, action_type, current_price, fault, balance) ==
    CheckMinimum(action_type, current_price,
                 RoundFloat(CalculatedSize(c, size, action_type, current_price, balance),
                            get_asset_precision(coin, MetaRead(fault)),
                            CalculatedSizeFloat(c, size, action_type, current_price,
                                                balance)))

\* lines 110-116: all_mids raises (caught at line 184) or does not list the coin
ReadMid(fault) ==
    IF fault = "mids_raise" THEN Ended(NoOrder("exception", FALSE))
    ELSE IF fault = "mid_missing" THEN Ended(NoOrder("coin_not_found", FALSE))
    ELSE [ended |-> FALSE]

\* lines 110-139 of execute_market_order: the mid price, the quantity (with the
\* balance read of the sizing engine for OPEN), the precision, the minimum check
PrepareOrder(c, av, coin, size, action_type, current_price, fault) ==
    IF fault \in MidFaults THEN ReadMid(fault)
    ELSE PrepareSized(c, coin, size, action_type, current_price, fault,
                      get_account_balance(av, SizingRead(fault)))

\* line 142: the balance is read again for buys that are not a CLOSE
ReadsBalanceAgain(action_type, is_buy) == action_type # "CLOSE" /\ is_buy

\* lines 143-144: balance < order_value, on the floats
InsufficientBalance(balance, rounded_size, current_price) ==
    FloatLt(balance, RMul(rounded_size, current_price),
            FFromRat(balance), OrderValueFloat(rounded_size, current_price))

\* lines 150-186: the order goes to the exchange
SubmitOrder(order, p, fault) ==
    IF fault = "order_raise"
    THEN Result(FALSE, FALSE, "exception", <<order>>, FALSE,
                p.rounded_size, p.order_value, p.sized)
    ELSE IF fault = "order_error"
    THEN Result(FALSE, FALSE, "exchange_error", <<order>>, FALSE,
                p.rounded_size, p.order_value, p.sized)
    ELSE IF fault = "order_unknown"
    THEN Result(FALSE, FALSE, "unknown_result", <<order>>, FALSE,
                p.rounded_size, p.order_value, p.sized)
    ELSE Result(TRUE, FALSE, "", <<order>>, TRUE,
                p.rounded_size, p.order_value, p.sized)

\* lines 141-186 on what lines 110-139 handed on
CheckAndSubmit(check_av, coin, is_buy, action_type, current_price, fault, p) ==
    IF p.ended THEN p.result
    ELSE IF /\ ReadsBalanceAgain(action_type, is_buy)
            /\ InsufficientBalance(get_account_balance(check_av, CheckRead(fault)),
                                   p.rounded_size, current_price)
    THEN Result(FALSE, FALSE, "insufficient_balance", << >>, FALSE,
                p.rounded_size, p.order_value, p.sized)
    ELSE SubmitOrder(Order(coin, is_buy, p.rounded_size), p, fault)

\* lines 108-186; sizing_av and check_av are the account value on the exchange at
\* the balance read of the sizing engine (line 51) and at the one of line 143
execute_market_order(c, sizing_av, check_av, coin, is_buy, size, action_type, current_price, fault) ==
    CheckAndSubmit(check_av, coin, is_buy, action_type, current_price, fault,
                   PrepareOrder(c, sizing_av, coin, size, action_type, current_price,
                                fault))

\* lines 203-207: the direction of an INCREASE
IncreaseIsBuy_Signal(szi, signal_size) == RLt(FromInt(0), signal_size)

IncreaseIsBuy(szi, signal_size) ==
    IF szi # FromInt(0) THEN RLt(FromInt(0), szi) ELSE RLt(FromInt(0), signal_size)

Side(is_buy) == [ended |-> FALSE, is_buy |-> is_buy]

\* lines 193-236 around the execute_market_order calls: the side of the order from
\* the position read, or the Result when copy_trade returns without an order; an
\* exception of info.user_state is caught in main (lines 280-283)
OrderSide(szi, signal_size, action_type, fault) ==
    IF action_type = "OPEN"
    THEN Side(RLt(FromInt(0), signal_size))
    ELSE IF action_type \in {"INCREASE", "DECREASE", "CLOSE"}
            /\ fault = "positions_raise"
    THEN Ended(NoOrder("exception", FALSE))
    ELSE IF action_type = "INCREASE"
    THEN Side(IncreaseIsBuy(szi, signal_size))
    ELSE IF action_type = "DECREASE"
    THEN IF szi # FromInt(0) THEN Side(RLt(szi, FromInt(0)))
         ELSE Ended(NoOrder("no_position_to_decrease", FALSE))
    ELSE IF action_type = "CLOSE"
    THEN IF szi # FromInt(0) THEN Side(RLt(szi, FromInt(0)))
         ELSE Ended(NoOrder("no_position_to_close", TRUE))
    ELSE Ended(NoOrder("unknown_action", FALSE))

\* lines 209, 221, 233: the order of copy_trade on the side chosen
TradeOnSide(c, sizing_av, check_av, signal_coin, signal_size, action_type, current_price, fault, side) ==
    IF side.ended THEN side.result
    ELSE execute_market_order(c, sizing_av, check_av, signal_coin, side.is_buy,
                              RAbs(signal_size), action_type, current_price, fault)

\* lines 188-236; pos is the exchange's positions at the position read
copy_trade(c, sizing_av, check_av, pos, signal_coin, signal_size, action_type, current_price, fault) ==
    TradeOnSide(c, sizing_av, check_av, signal_coin, signal_size, action_type,
                current_price, fault,
                OrderSide(pos[signal_coin], signal_size, action_type, fault))

\* the exchange fills a submitted market order in full
ApplyOrder(pos, o) ==
    [pos EXCEPT ![o.coin] = IF o.is_buy THEN RAdd(@, o.sz) ELSE RSub(@, o.sz)]

ApplyFill(pos, res) == IF res.filled THEN ApplyOrder(pos, res.orders[1]) ELSE pos

\* a run of trade_executor.py is a sequence of blocking calls to the exchange:
\* user_state (line 200, 213 or 225; not for OPEN), all_mids (line 112), user_state
\* (line 40 from line 51; OPEN only), meta (line 100), user_state (line 40 from line
\* 143; buys other than CLOSE), market_open (line 155).  Each call is one step,
\* taken with the computation that follows it up to the next call; between two
\* steps the account value moves and other programs act on the account.

IdleOutcome == [called |-> FALSE, stage |-> "idle"]

\* the record of a run that has parsed its arguments and built its executor (lines
\* 239-248, 271) and made no call yet; a value the run has not read yet is 0
StartRun(signal_coin, signal_size, action_type, side) ==
    [ called |-> side.ended,
      stage |-> IF side.ended THEN "done"
                ELSE IF action_type = "OPEN" THEN "mids" ELSE "positions",
      coin |-> signal_coin, signal_size |-> signal_size,
      action_type |-> action_type,
      current_price |-> FromInt(0), fault |-> "none",
      position_before |-> FromInt(0),
      sizing_balance |-> FromInt(0),
      check_balance |-> FromInt(0),
      order_balance |-> FromInt(0),
      position_at_order |-> FromInt(0),
      is_buy |-> IF side.ended THEN FALSE ELSE side.is_buy,
      prepared |-> Ended(NoOrder("", FALSE)),
      limiter_calls |-> << >>,
      result |-> IF side.ended THEN side.result ELSE NoOrder("in_flight", FALSE) ]

\* lines 193-196 and 235-236: what copy_trade decides before any call
FirstSide(signal_size, action_type) ==
    IF action_type \in {"INCREASE", "DECREASE", "CLOSE"} THEN Side(FALSE)
    ELSE OrderSide(FromInt(0), signal_size, action_type, "none")

\* copy_trade is entered with its arguments (from main, those of the command
\* line) and has made no call yet.  Neither copy_trade nor execute_market_order
\* calls the PositionLimiter.
CopyTradeStart ==
    /\ outcome.stage = "idle"
    /\ \E signal_coin \in ExecCoins, signal_size \in ExecSignals,
          action_type \in ActionTypes :
          outcome' = StartRun(signal_coin, signal_size, action_type,
                              FirstSide(signal_size, action_type))
    /\ UNCHANGED <<positions, rebalances, script>>
    /\ UNCHANGED <<sizingVars, limiterVars, logVars>>

\* the run ends with this result
EndRun(run, fault, result) ==
    [run EXCEPT !.called = TRUE, !.stage = "done", !.fault = fault, !.result = result]

\* at most one call of a run misbehaves: the fault of this call, or the earlier one
RunFault(fault) == IF fault # "none" THEN fault ELSE outcome.fault

AfterPosition(run, szi, fault, side) ==
    IF side.ended THEN EndRun([run EXCEPT !.position_before = szi], fault, side.result)
    ELSE [run EXCEPT !.stage = "mids", !.position_before = szi,
                     !.is_buy = side.is_buy]

\* the position read of copy_trade (line 200, 213 or 225) and the side it gives
CopyTradeReadPosition ==
    /\ outcome.stage = "positions"
    /\ \E fault \in PositionFaults \cup {"none"} :
          outcome' = AfterPosition(
              outcome,
              IF fault = "none" THEN positions[outcome.coin] ELSE FromInt(0),
              fault,
              OrderSide(positions[outcome.coin], outcome.signal_size,
                        outcome.action_type, fault))
    /\ UNCHANGED <<positions, rebalances, script>>
    /\ UNCHANGED <<sizingVars, limiterVars, logVars>>

AfterMids(run, current_price, fault, mid) ==
    IF mid.ended THEN EndRun(run, fault, mid.result)
    ELSE [run EXCEPT !.current_price = current_price,
                     !.stage = IF run.action_type = "OPEN" THEN "sizing" ELSE "meta"]

\* all_mids (line 112) and the mid price of the coin (line 116)
CopyTradeAllMids ==
    /\ outcome.stage = "mids"
    /\ \E current_price \in ExecPrices, fault \in MidFaults \cup {"none"} :
          /\ fault # "none" => outcome.fault = "none"
          /\ outcome' = AfterMids(outcome, current_price, RunFault(fault),
                                  ReadMid(RunFault(fault)))
    /\ UNCHANGED <<positions, rebalances, script>>
    /\ UNCHANGED <<sizingVars, limiterVars, logVars>>

\* the balance read of the sizing engine (line 51, from line 40), OPEN only;
\* sizing_balance is the account value the exchange holds at this read
CopyTradeSizingBalance ==
    /\ outcome.stage = "sizing"
    /\ \E fault \in SizingFaults \cup {"none"} :
          /\ fault # "none" => outcome.fault = "none"
          /\ outcome' = [outcome EXCEPT
                 !.stage = "meta", !.fault = RunFault(fault),
                 !.sizing_balance = accountValue]
    /\ UNCHANGED <<positions, rebalances, script>>
    /\ UNCHANGED <<sizingVars, limiterVars, logVars>>

AfterMeta(run, fault, p) ==
    IF p.ended THEN EndRun(run, fault, p.result)
    ELSE [run EXCEPT !.fault = fault, !.prepared = p,
                     !.stage = IF ReadsBalanceAgain(run.action_type, run.is_buy)
                               THEN "check_balance" ELSE "submit"]

\* meta (line 100, from line 129), then the quantity of lines 118-130 and the
\* minimum check of lines 133-139
CopyTradeMeta ==
    /\ outcome.stage = "meta"
    /\ \E fault \in MetaFaults \cup {"none"} :
          /\ fault # "none" => outcome.fault = "none"
          /\ outcome' = AfterMeta(
                 outcome, RunFault(fault),
                 PrepareSized(cfg, outcome.coin, RAbs(outcome.signal_size),
                              outcome.action_type, outcome.current_price,
                              RunFault(fault),
                              get_account_balance(outcome.sizing_balance,
                                                  SizingRead(RunFault(fault)))))
    /\ UNCHANGED <<positions, rebalances, script>>
    /\ UNCHANGED <<sizingVars, limiterVars, logVars>>

\* check_balance is the account value the exchange holds at the read of line 143
AfterCheck(run, fault, balance, p) ==
    IF InsufficientBalance(balance, p.rounded_size, run.current_price)
    THEN EndRun([run EXCEPT !.check_balance = accountValue], fault,
                Result(FALSE, FALSE, "insufficient_balance", << >>, FALSE,
                       p.rounded_size, p.order_value, p.sized))
    ELSE [run EXCEPT !.stage = "submit", !.fault = fault,
                     !.check_balance = accountValue]

\* the second balance read of a run (line 143, from line 40) and the check on it
CopyTradeCheckBalance ==
    /\ outcome.stage = "check_balance"
    /\ \E fault \in CheckFaults \cup {"none"} :
          /\ fault # "none" => outcome.fault = "none"
          /\ outcome' = AfterCheck(
                 outcome, RunFault(fault),
                 get_account_balance(accountValue, CheckRead(RunFault(fault))),
                 outcome.prepared)
    /\ UNCHANGED <<positions, rebalances, script>>
    /\ UNCHANGED <<sizingVars, limiterVars, logVars>>

AfterSubmit(run, fault, res) ==
    EndRun([run EXCEPT !.order_balance = accountValue,
                       !.position_at_order = positions[run.coin]], fault, res)

\* the order of a run reaches the exchange (line 155) and acts on the position the
\* exchange holds then
CopyTradeSubmit ==
    /\ outcome.stage = "submit"
    /\ \E fault \in OrderFaults \cup {"none"} :
          /\ fault # "none" => outcome.fault = "none"
          /\ outcome' = AfterSubmit(
                 outcome, RunFault(fault),
                 SubmitOrder(Order(outcome.coin, outcome.is_buy,
                                   outcome.prepared.rounded_size),
                             outcome.prepared, RunFault(fault)))
          /\ positions' = ApplyFill(
                 positions,
                 SubmitOrder(Order(outcome.coin, outcome.is_buy,
                                   outcome.prepared.rounded_size),
                             outcome.prepared, RunFault(fault)))
    /\ UNCHANGED <<rebalances, script>>
    /\ UNCHANGED <<sizingVars, limiterVars, logVars>>

\* the account value moves on the exchange at any time
ExecAccountValueChanges ==
    /\ \E v \in ExecAccountValues : v # accountValue /\ accountValue' = v
    /\ UNCHANGED <<cfg, sizeCall>>
    /\ UNCHANGED <<limiterVars, logVars, execVars>>

\* the position read, the balance reads and the order of a finished run, put
\* through copy_trade as one call
AsOneCall ==
    copy_trade(cfg, outcome.sizing_balance, outcome.check_balance,
               [c \in ExecCoins |-> outcome.position_before], outcome.coin,
               outcome.signal_size, outcome.action_type, outcome.current_price,
               outcome.fault)

-----------------------------------------------------------------------------
(* The other programs of the repository that place orders on the account:  *)
(* open-eth.py, test_buy.py, sync-positions.py, open-remaining-positions.py *)

\* the mid price such a program reads, the same for every coin it looks up
ScriptPrices == {FromInt(10)}

\* the last of them to start; pending holds the orders it has decided on and not
\* yet sent, started counts the runs of these programs so far
NoScript == [program |-> "none", pending |-> << >>, started |-> 0]

ScriptRun(program, orders) ==
    [program |-> program, pending |-> orders, started |-> script.started + 1]

\* another program starts at any time, up to MaxOtherRuns runs in all, and one
\* of these four once the one before it has sent its orders
OtherRuns == script.started + Len(rebalances)
OtherMayStart == OtherRuns < MaxOtherRuns
ScriptMayStart == OtherMayStart /\ script.pending = << >>

\* the $10 of "10.0 / current_price", the $10.01 of open-eth.py
ScriptOrderValue == FromInt(10)
OpenEthValue == R(1001, 100)

\* open-eth.py lines 22-32: $10.01 of ETH, rounded up to the precision of ETH:
\* math.ceil(eth_size * 10 ** decimals) / 10 ** decimals.  The ceiling of the
\* double differs from the ceiling of the exact value only when that is whole.
OpenEthSize(eth_price) ==
    LET s == Pow10(SzDecimals["ETH"])
        q == RDiv(OpenEthValue, eth_price)
        n == q[1] * s
    IN  IF n % q[2] # 0 THEN R(n \div q[2] + 1, s)
        ELSE R(FCeil(FMul(FDiv(FFromRat(OpenEthValue), FFromRat(eth_price)),
                          FInt(s))), s)

\* open-eth.py, the whole script: all_mids (line 17), meta (line 26) and one buy
\* of ETH (line 43); it reads neither the balance nor the positions
OpenEth ==
    /\ ScriptMayStart
    /\ \E eth_price \in ScriptPrices :
          LET order == Order("ETH", TRUE, OpenEthSize(eth_price))
          IN  /\ positions' = ApplyOrder(positions, order)
              /\ script' = ScriptRun("open-eth", << >>)
    /\ UNCHANGED <<outcome, rebalances>>
    /\ UNCHANGED <<sizingVars, limiterVars, logVars>>

\* the quantity worth $10 at the mid, rounded to the precision of the coin
\* (test_buy.py lines 63-74, sync-positions.py lines 96-103,
\* open-remaining-positions.py lines 45-55)
MinimumSize(coin, current_price) ==
    RoundTo(RDiv(ScriptOrderValue, current_price), SzDecimals[coin])

\* test_buy.py main() up to the countdown: user_state (line 37), all_mids, meta,
\* and the balance check of line 84
TestBuyRead ==
    /\ ScriptMayStart
    /\ \E current_price \in ScriptPrices :
          script' = ScriptRun("test_buy",
                        IF RLt(accountValue, ScriptOrderValue) THEN << >>
                        ELSE << Order("SOL", TRUE, MinimumSize("SOL", current_price)) >>)
    /\ UNCHANGED <<positions, outcome, rebalances>>
    /\ UNCHANGED <<sizingVars, limiterVars, logVars>>

\* the signal provider's open positions as sync-positions.py reads them (lines
\* 18-33): coin and sign
SignalBooks == { << [coin |-> "SOL", is_long |-> TRUE] >>,
                 << [coin |-> "SOL", is_long |-> FALSE], [coin |-> "ETH", is_long |-> TRUE] >> }

\* sync-positions.py lines 77-112: one trade of the minimum size for every signal
\* position in a coin the follower holds nothing of
RECURSIVE TradesToExecute(_, _, _)
TradesToExecute(book, pos, current_price) ==
    IF book = << >> THEN << >>
    ELSE (IF pos[Head(book).coin] # FromInt(0) THEN << >>
          ELSE << Order(Head(book).coin, Head(book).is_long,
                        MinimumSize(Head(book).coin, current_price)) >>)
         \o TradesToExecute(Tail(book), pos, current_price)

\* line 122: sum(t["value"] ...), value = min_size * current_price
RECURSIVE TotalValue(_, _)
TotalValue(trades, current_price) ==
    IF trades = << >> THEN FromInt(0)
    ELSE RAdd(RMul(Head(trades).sz, current_price),
              TotalValue(Tail(trades), current_price))

\* the same sum on the doubles, from the left
RECURSIVE TotalValueFloat(_, _, _)
TotalValueFloat(trades, current_price, sum) ==
    IF trades = << >> THEN sum
    ELSE TotalValueFloat(Tail(trades), current_price,
                         FAdd(sum, FMul(FFromRat(Head(trades).sz),
                                        FFromRat(current_price))))

\* sync-positions.py sync_positions() up to the countdown: user_state (line 53)
\* gives the balance and the positions held; then the signal provider's positions,
\* all_mids, meta, and the balance check of line 125
SyncPositionsRead ==
    /\ ScriptMayStart
    /\ \E book \in SignalBooks, current_price \in ScriptPrices :
          LET trades == TradesToExecute(book, positions, current_price)
              total  == TotalValue(trades, current_price)
          IN  script' = ScriptRun("sync-positions",
                            IF FloatLt(accountValue, total, FFromRat(accountValue),
                                       TotalValueFloat(trades, current_price, FZero))
                            THEN << >> ELSE trades)
    /\ UNCHANGED <<positions, outcome, rebalances>>
    /\ UNCHANGED <<sizingVars, limiterVars, logVars>>

\* totalMarginUsed as open-remaining-positions.py reads it (line 28), and the value
\* of its PROMPT order (prompt_size * prompt_price, line 70)
MarginsUsed == {FromInt(0)}
PromptValues == {FromInt(10)}
eth_leverage == 50
prompt_leverage == 10

\* open-remaining-positions.py lines 69-78: total_margin_needed > available
InsufficientMargin(av, margin_used, eth_size, eth_price, prompt_value) ==
    FloatLt(RSub(av, margin_used),
            RAdd(RDiv(RMul(eth_size, eth_price), FromInt(eth_leverage)),
                 RDiv(prompt_value, FromInt(prompt_leverage))),
            FSub(FFromRat(av), FFromRat(margin_used)),
            FAdd(FDiv(FMul(FFromRat(eth_size), FFromRat(eth_price)), FInt(eth_leverage)),
                 FDiv(FFromRat(prompt_value), FInt(prompt_leverage))))

\* open-remaining-positions.py open_remaining_positions() up to the countdown:
\* user_state (line 26), all_mids, meta, and the margin check of line 78.  Its
\* second order (line 120) is for PROMPT, a coin outside ExecCoins.
OpenRemainingRead ==
    /\ ScriptMayStart
    /\ \E eth_price \in ScriptPrices, margin_used \in MarginsUsed,
          prompt_value \in PromptValues :
          LET eth_size == MinimumSize("ETH", eth_price)
          IN  script' = ScriptRun("open-remaining-positions",
                            IF InsufficientMargin(accountValue, margin_used, eth_size,
                                                  eth_price, prompt_value)
                            THEN << >> ELSE << Order("ETH", TRUE, eth_size) >>)
    /\ UNCHANGED <<positions, outcome, rebalances>>
    /\ UNCHANGED <<sizingVars, limiterVars, logVars>>

\* the next order the program has decided on reaches the exchange and acts on the
\* position the exchange holds then
SendPending(program) ==
    /\ script.program = program
    /\ script.pending # << >>
    /\ positions' = ApplyOrder(positions, Head(script.pending))
    /\ script' = [script EXCEPT !.pending = Tail(@)]
    /\ UNCHANGED <<outcome, rebalances>>
    /\ UNCHANGED <<sizingVars, limiterVars, logVars>>

\* test_buy.py line 105
TestBuyOrder == SendPending("test_buy")

\* sync-positions.py line 147, once for each trade of the loop of line 143
SyncPositionsOrder == SendPending("sync-positions")

\* open-remaining-positions.py line 94
OpenRemainingOrder == SendPending("open-remaining-positions")

-----------------------------------------------------------------------------
(* Initial states of the account                                           *)

ExecConfigs ==
    { c \in Configs : /\ c.sizing_method \in {"fixed_ratio", "wallet_percentage"}
                      /\ c.account_ratio = R(1, 10)
                      /\ c.max_position_size = FromInt(60)
                      /\ c.fixed_size = FromInt(3)
                      /\ c.wallet_percentage = R(1, 2)
                      /\ c.wallet_fixed_amount = FromInt(40) }

\* the follower is flat, or holds a position in one coin
InitialPositions ==
    { [c \in ExecCoins |-> IF c = held THEN R(5 * k, 2) ELSE FromInt(0)] :
          held \in ExecCoins, k \in (0 - MaxPositionSteps)..MaxPositionSteps }

InitExec ==
    /\ positions \in { p \in InitialPositions : p["ETH"] = FromInt(0) }
    /\ outcome = IdleOutcome
    /\ rebalances = << >>
    /\ script = NoScript

\* no trade_executor.py run in this specification
InitExecIdle ==
    /\ positions = [c \in ExecCoins |-> FromInt(0)]
    /\ outcome = IdleOutcome
    /\ rebalances = << >>
    /\ script = NoScript

InitSizing ==
    /\ cfg \in Configs
    /\ accountValue \in AccountValues
    /\ sizeCall = NoSizeCall

-----------------------------------------------------------------------------
(* PortfolioExecutor.rebalance_position                                    *)

TargetValues == {FromInt(-50), FromInt(0), FromInt(5), FromInt(25), FromInt(50)}

\* at most one collaborator call of a rebalance misbehaves; "close_rejected" is a
\* close submission that returns without a fill (error status, nothing filled)
RebalanceFaults == {"none", "positions_raise", "close_raise", "close_rejected",
                    "order_raise", "order_error", "order_unknown"}

\* the 0.9 of "abs(current_size) * 0.9"
ReopenFraction == R(9, 10)

\* lines 29-44: the size held, 0 when the coin is not held or the query raises
get_current_position(pos, coin, read) == IF read = "ok" THEN pos[coin] ELSE FromInt(0)

\* lines 58-62
TargetSize_Unsigned(target_value, current_price, is_long) ==
    IF RLt(FromInt(0), target_value) THEN RDiv(target_value, current_price)
    ELSE FromInt(0)

TargetSize(target_value, current_price, is_long) ==
    LET magnitude == IF RLt(FromInt(0), target_value)
                     THEN RDiv(target_value, current_price) ELSE FromInt(0)
    IN  IF is_long THEN RAbs(magnitude) ELSE RNeg(RAbs(magnitude))

\* lines 58-65 as the interpreter computes them, on doubles: size_diff
SizeDiffFloat(target_value, current_price, is_long, current_size) ==
    LET magnitude == IF RLt(FromInt(0), target_value)
                     THEN FDiv(FFromRat(target_value), FFromRat(current_price))
                     ELSE FZero
    IN  FSub(IF is_long THEN FAbs(magnitude) ELSE FNeg(FAbs(magnitude)),
             FFromRat(current_size))

\* line 68
IsCloseBranch(target_value, current_size) ==
    /\ RLt(RAbs(target_value), FromInt(min_order_value))
    /\ current_size # FromInt(0)

\* line 71
CloseSize_Signed(current_size) == current_size

CloseSize(current_size) == RAbs(current_size)

\* line 75: abs(size_diff * current_price) < min_order_value; d is the double
\* size_diff, looked at when the exact product is the minimum itself
IsSkipBranch_Off(size_diff, current_price, d) == FALSE

IsSkipBranch(size_diff, current_price, d) ==
    FloatLt(RAbs(RMul(size_diff, current_price)), FromInt(min_order_value),
            FAbs(FMul(d, FFromRat(current_price))), FInt(min_order_value))

\* line 91: abs(size_diff) >= abs(current_size) * 0.9; d is the double size_diff,
\* looked at when the two sides are equal as exact values
IsCloseThenOpen_Loose(size_diff, current_size, d) ==
    ~FloatLt(RAbs(size_diff), RMul(RAbs(current_size), FromInt(5)),
             FAbs(d), FMul(FAbs(FFromRat(current_size)), FInt(5)))

IsCloseThenOpen_Half(size_diff, current_size, d) ==
    ~FloatLt(RAbs(size_diff), RMul(RAbs(current_size), R(1, 2)),
             FAbs(d), FMul(FAbs(FFromRat(current_size)), FFromRat(R(1, 2))))

IsCloseThenOpen(size_diff, current_size, d) ==
    ~FloatLt(RAbs(size_diff), RMul(RAbs(current_size), ReopenFraction),
             FAbs(d), FMul(FAbs(FFromRat(current_size)), FFromRat(ReopenFraction)))

\* lines 94-99: the order that closes the existing position
CloseOrder_ByDiff(coin, current_size, size_diff) ==
    Order(coin, RLt(current_size, FromInt(0)), RAbs(size_diff))

CloseOrder(coin, current_size, size_diff) ==
    Order(coin, RLt(current_size, FromInt(0)), RAbs(current_size))

\* line 103
ReopensAfterClose_Magnitude(target_value) ==
    RLe(FromInt(min_order_value), RAbs(target_value))

ReopensAfterClose(target_value) == RLe(FromInt(min_order_value), target_value)

RebalanceResult(success, skipped, action, error, orders, fills, size) ==
    [ success |-> success, skipped |-> skipped, action |-> action, error |-> error,
      orders |-> orders, fills |-> fills, current_size |-> size[1],
      target_size |-> size[2], size_diff |-> size[3] ]

\* lines 123-161: the final submission and the result built from its status
SubmitFinal(action_type, before, fills_before, order, fault, size) ==
    IF fault = "order_raise"
    THEN RebalanceResult(FALSE, FALSE, action_type, "exception",
                         Append(before, order), Append(fills_before, FALSE), size)
    ELSE IF fault = "order_error"
    THEN RebalanceResult(FALSE, FALSE, action_type, "exchange_error",
                         Append(before, order), Append(fills_before, FALSE), size)
    ELSE IF fault = "order_unknown"
    THEN RebalanceResult(FALSE, FALSE, action_type, "unknown_result",
                         Append(before, order), Append(fills_before, FALSE), size)
    ELSE RebalanceResult(TRUE, FALSE, action_type, "",
                         Append(before, order), Append(fills_before, TRUE), size)

\* lines 68-118: the branch of the if/elif chain a rebalance takes
Branch_SkipFirst(target_value, current_size, size_diff, current_price, d) ==
    IF IsSkipBranch(size_diff, current_price, d) THEN "SKIP"
    ELSE IF IsCloseBranch(target_value, current_size) THEN "CLOSE"
    ELSE IF current_size = FromInt(0) THEN "OPEN"
    ELSE IF IsCloseThenOpen(size_diff, current_size, d) THEN "REOPEN"
    ELSE "ADJUST"

Branch(target_value, current_size, size_diff, current_price, d) ==
    IF IsCloseBranch(target_value, current_size) THEN "CLOSE"
    ELSE IF IsSkipBranch(size_diff, current_price, d) THEN "SKIP"
    ELSE IF current_size = FromInt(0) THEN "OPEN"
    ELSE IF IsCloseThenOpen(size_diff, current_size, d) THEN "REOPEN"
    ELSE "ADJUST"

\* lines 68-161 on the branch taken: the orders of the run in submission order,
\* each with whether the exchange filled it
RebalanceOnBranch(coin, target_value, is_long, fault, size, close, branch) ==
    IF branch = "CLOSE"
    THEN SubmitFinal("CLOSE", << >>, << >>,
                     Order(coin, RLt(size[1], FromInt(0)), CloseSize(size[1])),
                     fault, size)
    ELSE IF branch = "SKIP"
    THEN RebalanceResult(FALSE, TRUE, "", "change_too_small", << >>, << >>, size)
    ELSE IF branch = "OPEN"
    THEN SubmitFinal("OPEN", << >>, << >>,
                     Order(coin, is_long, RAbs(size[3])), fault, size)
    ELSE IF branch = "REOPEN"
    THEN IF fault = "close_raise"
         THEN RebalanceResult(FALSE, FALSE, "", "exception",
                              <<close>>, <<FALSE>>, size)
         ELSE IF ReopensAfterClose(target_value)
         THEN SubmitFinal("OPEN", <<close>>, <<fault # "close_rejected">>,
                          Order(coin, is_long, RAbs(size[2])), fault, size)
         ELSE RebalanceResult(TRUE, FALSE, "CLOSED", "",
                              <<close>>, <<fault # "close_rejected">>, size)
    ELSE SubmitFinal("ADJUST", << >>, << >>,
                     Order(coin, RLt(FromInt(0), size[3]), RAbs(size[3])),
                     fault, size)

\* lines 65-161 on the size read and the target size of lines 58-62
RebalanceFrom(coin, target_value, current_price, is_long, fault, current_size, target_size) ==
    RebalanceOnBranch(
        coin, target_value, is_long, fault,
        <<current_size, target_size, RSub(target_size, current_size)>>,
        CloseOrder(coin, current_size, RSub(target_size, current_size)),
        Branch(target_value, current_size, RSub(target_size, current_size),
               current_price,
               SizeDiffFloat(target_value, current_price, is_long, current_size)))

\* lines 46-167: every decision of a run is taken on the position read at line 50;
\* pos is the exchange's positions at that read
rebalance_position(pos, coin, target_value, current_price, is_long, fault) ==
    RebalanceFrom(coin, target_value, current_price, is_long, fault,
                  get_current_position(pos, coin,
                      IF fault = "positions_raise" THEN "raise" ELSE "ok"),
                  TargetSize(target_value, current_price, is_long))

\* the exchange fills a submitted market order in full, or not at all
RECURSIVE ApplyFills(_, _, _)
ApplyFills(szi, orders, fills) ==
    IF orders = << >> THEN szi
    ELSE ApplyFills(IF Head(fills)
                    THEN IF Head(orders).is_buy THEN RAdd(szi, Head(orders).sz)
                         ELSE RSub(szi, Head(orders).sz)
                    ELSE szi,
                    Tail(orders), Tail(fills))

\* the position after each submission of a result when nothing else acts on the
\* account, in submission order
PositionsAfter(szi, res) ==
    [ i \in 1..Len(res.orders) |->
        ApplyFills(szi, SubSeq(res.orders, 1, i), SubSeq(res.fills, 1, i)) ]

\* the calls behind each network round trip of a rebalance
CloseFaults == {"close_raise", "close_rejected"}

\* what the run returns, from the position it read and the call that misbehaved
ResultOf(run, fault) ==
    rebalance_position([c \in ExecCoins |-> run.position_before], run.coin,
                       run.target_value, run.current_price, run.is_long, fault)

\* whether the next order of the run is the close of lines 94-99
NextIsClose(run) ==
    /\ run.submitted = 0
    /\ run.result.action = "CLOSED" \/ Len(run.result.orders) = 2

\* the record of a run that has read the position and taken its branch: result is
\* what the run returns when no later call misbehaves; seen is the position on the
\* exchange after each of its orders
BeginRebalance(coin, target_value, current_price, is_long, fault, res) ==
    [ coin |-> coin, target_value |-> target_value,
      current_price |-> current_price, is_long |-> is_long,
      fault |-> fault, position_before |-> positions[coin],
      after_others |-> \A j \in 1..Len(rebalances) : rebalances[j].done,
      submitted |-> 0, seen |-> << >>,
      done |-> res.orders = << >>,
      result |-> res,
      position_after |-> positions[coin] ]

\* a run of portfolio_executor.py is a sequence of blocking calls to the exchange.
\* Its first step: main calls rebalance_position, which reads the position (line
\* 50, from line 32) and takes its branch.
RebalanceRun(coin, target_value, current_price, is_long, fault) ==
    /\ rebalances' = Append(rebalances,
           BeginRebalance(coin, target_value, current_price, is_long, fault,
                          rebalance_position(positions, coin, target_value,
                                             current_price, is_long, fault)))
    /\ UNCHANGED <<positions, outcome, script>>
    /\ UNCHANGED <<sizingVars, limiterVars, logVars>>

\* the target value and the mid price of a run; in the last two the doubles
\* decide a comparison of equal exact values (lines 75 and 91)
RebalanceCalls ==
    (TargetValues \X Prices)
        \cup {<<FromInt(14), FromInt(5)>>, <<R(114, 5), FromInt(15)>>}

\* one run of portfolio_executor.py begins
Rebalance ==
    /\ rebalances = << >>
    /\ \E call \in RebalanceCalls,
          is_long \in BOOLEAN, fault \in {"none", "positions_raise"} :
          RebalanceRun("SOL", call[1], call[2], is_long, fault)

\* a second run of portfolio_executor.py begins, after the first or during it
RebalanceAgain ==
    /\ Len(rebalances) = 1
    /\ \E call \in RebalanceCalls,
          is_long \in BOOLEAN, fault \in {"none", "positions_raise"} :
          RebalanceRun("SOL", call[1], call[2], is_long, fault)

\* a run of portfolio_executor.py that takes a coin to a target of 0
CloseOut ==
    /\ OtherMayStart
    /\ \E current_price \in ScriptPrices :
          RebalanceRun("SOL", FromInt(0), current_price, TRUE, "none")

\* the run after its order k reached the exchange, which then holds pos
AfterOrder(run, fault, res, k, pos) ==
    [run EXCEPT !.fault = fault, !.submitted = k,
                !.seen = Append(@, pos[run.coin]),
                !.done = (k = Len(res.orders)),
                !.result = res,
                !.position_after = pos[run.coin]]

\* order k of the result reaches the exchange, which fills it or not
SendOrder(i, fault, res, k) ==
    /\ positions' = ApplyFill(positions, [filled |-> res.fills[k],
                                          orders |-> <<res.orders[k]>>])
    /\ rebalances' = [rebalances EXCEPT ![i] =
           AfterOrder(@, fault, res, k,
                      ApplyFill(positions, [filled |-> res.fills[k],
                                            orders |-> <<res.orders[k]>>]))]

SendNext(i, fault) ==
    SendOrder(i, fault, ResultOf(rebalances[i], fault), rebalances[i].submitted + 1)

\* the next order of a run reaches the exchange (line 94 or line 123) and acts on
\* the position the exchange holds then
RebalanceOrder ==
    \E i \in 1..Len(rebalances) :
        /\ ~rebalances[i].done
        /\ \E fault \in (IF NextIsClose(rebalances[i]) THEN CloseFaults
                         ELSE OrderFaults) \cup {"none"} :
              /\ fault # "none" => rebalances[i].fault = "none"
              /\ SendNext(i, IF fault # "none" THEN fault ELSE rebalances[i].fault)
        /\ UNCHANGED <<outcome, script>>
        /\ UNCHANGED <<sizingVars, limiterVars, logVars>>

\* the follower is flat, or holds a SOL position; at 0.8 SOL the doubles decide
\* the two comparisons of RebalanceCalls
InitRebalance ==
    /\ positions \in { p \in InitialPositions : p["ETH"] = FromInt(0) }
                         \cup { [c \in ExecCoins |-> IF c = "SOL" THEN R(4, 5)
                                                      ELSE FromInt(0)] }
    /\ outcome = IdleOutcome
    /\ rebalances = << >>
    /\ script = NoScript

-----------------------------------------------------------------------------
(* Properties of the sizing engine (checked under SpecSizing)              *)

OrderValue == RMul(sizeCall.my_size, sizeCall.current_price)
MaxSafeValue == RMul(sizeCall.account_balance, SafetyFraction)
MinValue == FromInt(min_order_value)
RawSize == SizeByMethod(cfg, sizeCall.signal_size, sizeCall.current_price,
                        sizeCall.account_balance)

\* C1 as stated: for every method and input, the returned quantity times the price
\* is at least min_order_value (10) and at most 90% of the account value.
C1_Original ==
    sizeCall.called => /\ RLe(MinValue, OrderValue)
                       /\ RLe(OrderValue, MaxSafeValue)

\* C1 amended: the order value never exceeds 90% of the account value; it is at
\* least min_order_value whenever 90% of the account value is at least
\* min_order_value, and otherwise it is exactly 90% of the account value.
C1_ValueBounds ==
    sizeCall.called =>
        /\ RLe(OrderValue, MaxSafeValue)
        /\ RLe(MinValue, MaxSafeValue) => RLe(MinValue, OrderValue)
        /\ RLt(MaxSafeValue, MinValue) => OrderValue = MaxSafeValue

\* the minimum floor acted and the account could afford it
C1_Witness ==
    /\ sizeCall.called
    /\ RLt(RMul(RawSize, sizeCall.current_price), MinValue)
    /\ RLt(MinValue, MaxSafeValue)
    /\ OrderValue = MinValue

IsC2Input ==
    /\ sizeCall.called
    /\ cfg.sizing_method = "wallet_fixed"
    /\ cfg.wallet_fixed_amount = FromInt(10)
    /\ sizeCall.account_balance = FromInt(5)
    /\ sizeCall.current_price = FromInt(10)

\* C2 as stated: wallet_fixed with walletFixedAmount=10, accountValue=5, price=10
\* returns quantity 1.0 (the minimum floor overrides the balance clamp).
C2_Original == IsC2Input => sizeCall.my_size = FromInt(1)

\* C2 amended: on that input the balance clamp, applied last, overrides the minimum
\* floor and the returned quantity is 0.45 (order value 4.5).
C2_ClampOverridesFloor == IsC2Input => sizeCall.my_size = R(45, 100)

C2_Witness == IsC2Input /\ OrderValue = R(45, 10)

\* the pipeline of the claim, written on quantities with min
RefMethodQuantity(c, s, p, av) ==
    CASE c.sizing_method = "fixed_size"        -> c.fixed_size
      [] c.sizing_method = "wallet_percentage" -> RDiv(RMul(av, c.wallet_percentage), p)
      [] c.sizing_method = "wallet_fixed"      ->
             RDiv(RMin(c.wallet_fixed_amount, RMul(av, R(9, 10))), p)
      [] OTHER                                 -> RMul(RAbs(s), c.account_ratio)
RefStep1(c, q, p) ==
    IF c.sizing_method \in {"wallet_percentage", "wallet_fixed"} THEN q
    ELSE RMin(q, RDiv(c.max_position_size, p))
RefStep2(q, p) == IF RLt(RMul(q, p), FromInt(10)) THEN RDiv(FromInt(10), p) ELSE q
RefStep3(q, p, av) == RMin(q, RDiv(RMul(av, R(9, 10)), p))
RefComputeSize(c, s, p, av) ==
    RefStep3(RefStep2(RefStep1(c, RefMethodQuantity(c, s, p, av), p), p), p, av)

\* C3: the returned quantity is the method formula, then the maxPositionSize cap
\* (non-wallet methods only), then the floor to minOrderValue/price, then the clamp
\* to accountValue*0.9/price, in that order.
C3_Pipeline ==
    sizeCall.called =>
        sizeCall.my_size = RefComputeSize(cfg, sizeCall.signal_size,
                                          sizeCall.current_price,
                                          sizeCall.account_balance)

\* a wallet method sized above maxPositionSize and left uncapped by step 1
C3_Witness ==
    /\ sizeCall.called
    /\ cfg.sizing_method = "wallet_percentage"
    /\ RLt(cfg.max_position_size, OrderValue)
    /\ sizeCall.my_size = RawSize

-----------------------------------------------------------------------------
(* Properties of copy_trade (checked under SpecExec)                       *)

\* the orders of the finished run
Submitted == IF outcome.called THEN outcome.result.orders ELSE << >>

\* the steps of a run, put together, are one call of copy_trade on what the run read
RunIsOneCall == outcome.called => outcome.result = AsOneCall

\* a CLOSE whose position another program closed between the position read and
\* the order: the order opens a position on the other side
CloseOverturns ==
    /\ outcome.called
    /\ outcome.action_type = "CLOSE"
    /\ outcome.result.filled
    /\ RLt(FromInt(0), outcome.position_before)
    /\ outcome.position_at_order = FromInt(0)
    /\ RLt(positions[outcome.coin], FromInt(0))

\* an OPEN sized on one account value and refused on another, read later
BalanceMovesBetweenReads ==
    /\ outcome.called
    /\ outcome.action_type = "OPEN"
    /\ outcome.fault = "none"
    /\ RLe(outcome.result.order_value, outcome.sizing_balance)
    /\ RLt(outcome.check_balance, outcome.result.order_value)
    /\ outcome.result.error = "insufficient_balance"

\* a DECREASE skipped below the minimum while test_buy.py ran, from its position
\* read to its order, between the position read and the all_mids of the run
SkippedNextToTestBuy ==
    /\ outcome.called
    /\ outcome.action_type = "DECREASE"
    /\ outcome.signal_size = FromInt(5)
    /\ outcome.position_before = R(5, 2)
    /\ outcome.result.skipped
    /\ Submitted = << >>
    /\ script.program = "test_buy" /\ script.pending = << >>
    /\ positions["SOL"] = R(7, 2)

\* an OPEN sized on an account value of 100 and refused on one of 5, next to a
\* test_buy.py that bought 1 SOL meanwhile
RefusedNextToTestBuy ==
    /\ outcome.called
    /\ outcome.action_type = "OPEN"
    /\ outcome.sizing_balance = FromInt(100)
    /\ outcome.check_balance = FromInt(5)
    /\ outcome.result.error = "insufficient_balance"
    /\ script.program = "test_buy" /\ script.pending = << >>
    /\ outcome.coin = "SOL"
    /\ positions["SOL"] = FromInt(1)

\* an OPEN checked on an account value of 100 and sent when the account held 5
SentOnMovedBalance ==
    /\ outcome.called
    /\ outcome.action_type = "OPEN"
    /\ outcome.result.success
    /\ outcome.result.order_value = FromInt(50)
    /\ outcome.check_balance = FromInt(100)
    /\ outcome.order_balance = FromInt(5)

\* a CLOSE of 0.025 SOL: the double 0.025 is above the tie and rounds to 0.03
RoundsTieUp ==
    /\ outcome.called
    /\ outcome.action_type = "CLOSE"
    /\ outcome.signal_size = R(1, 40)
    /\ Len(Submitted) = 1
    /\ Submitted[1].sz = R(3, 100)

\* an INCREASE worth the balance itself, refused: the double 8.3 * 15 is
\* 124.50000000000001
RefusedAtTie ==
    /\ outcome.called
    /\ outcome.action_type = "INCREASE"
    /\ outcome.result.order_value = outcome.check_balance
    /\ outcome.result.error = "insufficient_balance"

\* C4: every order submitted is preceded, in the same invocation, by a
\* should_allow_trade call for that coin that returned true, and record_trade is
\* called only after the order actually executed.
C4_Original ==
    outcome.called =>
        /\ \A i \in 1..Len(Submitted) :
              \E j \in 1..Len(outcome.limiter_calls) :
                  /\ outcome.limiter_calls[j].op = "should_allow_trade"
                  /\ outcome.limiter_calls[j].coin = Submitted[i].coin
                  /\ outcome.limiter_calls[j].result = TRUE
        /\ \A j \in 1..Len(outcome.limiter_calls) :
              outcome.limiter_calls[j].op = "record_trade" => outcome.result.filled

\* C18: the direction of the order copy_trade submits: OPEN buys iff signalSize > 0;
\* INCREASE buys iff the existing position is long when a nonzero position exists,
\* else iff signalSize > 0; DECREASE and CLOSE buy iff the existing position is
\* short.  The existing position is the one the run read (lines 200, 213, 225).
C18_Direction ==
    \A i \in 1..Len(Submitted) :
        Submitted[i].is_buy =
            IF outcome.action_type = "OPEN"
            THEN RLt(FromInt(0), outcome.signal_size)
            ELSE IF outcome.action_type = "INCREASE"
            THEN IF outcome.position_before # FromInt(0)
                 THEN RLt(FromInt(0), outcome.position_before)
                 ELSE RLt(FromInt(0), outcome.signal_size)
            ELSE /\ outcome.action_type \in {"DECREASE", "CLOSE"}
                 /\ RLt(outcome.position_before, FromInt(0))

\* an INCREASE signalled long while the follower is short: the order sells
C18_Witness ==
    /\ outcome.called
    /\ outcome.action_type = "INCREASE"
    /\ RLt(outcome.position_before, FromInt(0))
    /\ RLt(FromInt(0), outcome.signal_size)
    /\ Len(Submitted) = 1
    /\ ~Submitted[1].is_buy
    /\ outcome.result.filled

\* the balance the sizing engine of this run worked with, and the precision the
\* run rounded to
RunBalance == get_account_balance(outcome.sizing_balance, SizingRead(outcome.fault))

RunPrecision == get_asset_precision(outcome.coin, MetaRead(outcome.fault))

\* what the sizing engine gives for the signal of this run, rounded to the
\* precision of the coin, under the collaborator reads of the run
SizedQuantity ==
    RoundFloat(calculate_position_size(cfg, RAbs(outcome.signal_size),
                                       outcome.current_price, RunBalance),
               RunPrecision,
               calculate_position_size_float(cfg, RAbs(outcome.signal_size),
                                             outcome.current_price, RunBalance))

\* C19: for OPEN, INCREASE and DECREASE the quantity of the submitted order is
\* the sizing engine's result for |signalSize|, rounded to the instrument
\* precision: sizing method, cap, minimum floor and 90% clamp apply to all three.
C19_Original ==
    \A i \in 1..Len(Submitted) :
        outcome.action_type \in {"OPEN", "INCREASE", "DECREASE"} =>
            /\ outcome.result.sized
            /\ Submitted[i].sz = SizedQuantity

\* the reads of this run that end it before any submission, as a failure
EndsBeforeOrder == outcome.fault \in {"positions_raise", "mids_raise", "mid_missing"}

\* C20: for CLOSE with an existing nonzero position (as the run read it) the
\* submitted quantity is the signal magnitude |signalSize| rounded, as Python
\* rounds the double, to the instrument precision; the
\* sizing engine is not invoked, and the order goes out also when its value is
\* below minOrderValue or above the account balance.
C20_CloseBySignal ==
    ( /\ outcome.called
      /\ outcome.action_type = "CLOSE"
      /\ outcome.position_before # FromInt(0) )
    => /\ ~outcome.result.sized
       /\ IF EndsBeforeOrder
          THEN Submitted = << >> /\ ~outcome.result.success
          ELSE Submitted =
                   << Order(outcome.coin, RLt(outcome.position_before, FromInt(0)),
                            RoundTo(RAbs(outcome.signal_size), RunPrecision)) >>

\* a short position closed by a buy worth more than the whole account
C20_Witness ==
    /\ outcome.called
    /\ outcome.action_type = "CLOSE"
    /\ RLt(outcome.position_before, FromInt(0))
    /\ Len(Submitted) = 1
    /\ Submitted[1].is_buy
    /\ RLt(outcome.order_balance, outcome.result.order_value)
    /\ outcome.result.filled

\* a close worth less than the minimum order value goes out as well
C20_BelowMinimumReached ==
    /\ outcome.called
    /\ outcome.action_type = "CLOSE"
    /\ Len(Submitted) = 1
    /\ RLt(FromInt(0), outcome.result.order_value)
    /\ RLt(outcome.result.order_value, FromInt(min_order_value))

\* C21: for DECREASE or CLOSE requested while the follower has no position (or
\* a zero-size one) for the coin, copy_trade submits no order, never calls the
\* sizing engine, and returns a Skipped (non-fatal) outcome.
C21_Original ==
    ( /\ outcome.called
      /\ outcome.action_type \in {"DECREASE", "CLOSE"}
      /\ outcome.position_before = FromInt(0)
      /\ outcome.fault # "positions_raise" )
    => /\ Submitted = << >>
       /\ ~outcome.result.sized
       /\ outcome.result.skipped

\* the quantity of this run as execute_market_order rounds it, and its value
RoundedQuantity ==
    RoundFloat(CalculatedSize(cfg, RAbs(outcome.signal_size), outcome.action_type,
                              outcome.current_price, RunBalance),
               RunPrecision,
               CalculatedSizeFloat(cfg, RAbs(outcome.signal_size), outcome.action_type,
                                   outcome.current_price, RunBalance))

RoundedValue == RMul(RoundedQuantity, outcome.current_price)

\* rounded quantity times price, the product of the doubles, below minOrderValue
ValueBelowMinimumOf(q, price) ==
    FloatLt(RMul(q, price), FromInt(min_order_value),
            FMul(FFromRat(q), FFromRat(price)), FInt(min_order_value))

ValueBelowMinimum ==
    Value({ValueBelowMinimumOf(q, outcome.current_price) : q \in {RoundedQuantity}})

\* the run reached execute_market_order and read the mid price
ReachedRounding ==
    /\ outcome.called
    /\ outcome.action_type \in {"OPEN", "INCREASE", "DECREASE"}
    /\ outcome.fault \notin {"mids_raise", "mid_missing", "positions_raise"}
    /\ outcome.action_type = "DECREASE" => outcome.position_before # FromInt(0)

\* C22: for every non-CLOSE action, if the quantity rounded to the instrument
\* precision times the current price is below minOrderValue, no order is
\* submitted and the outcome is Skipped, not an error; this holds although the
\* sizing engine floors its unrounded result to the minimum.
C22_BelowMinimumSkipped ==
    ( ReachedRounding /\ ValueBelowMinimum )
    => /\ Submitted = << >>
       /\ outcome.result.skipped
       /\ outcome.result.error = "below_minimum"

\* an OPEN floored to 10/12 = 0.8333.. and rounded down to 0.83, worth 9.96
C22_Witness ==
    /\ ReachedRounding
    /\ outcome.action_type = "OPEN"
    /\ RLe(FromInt(min_order_value),
           RMul(calculate_position_size(cfg, RAbs(outcome.signal_size),
                                        outcome.current_price, outcome.sizing_balance),
                outcome.current_price))
    /\ outcome.fault = "none"
    /\ ValueBelowMinimum
    /\ outcome.result.skipped
    /\ Submitted = << >>

\* the account value the candidate order meets: the one the exchange holds when
\* the order arrives, or the one the run read at line 143 and ended on
BalanceAtOrder ==
    IF Submitted # << >> THEN outcome.order_balance
    ELSE get_account_balance(outcome.check_balance, CheckRead(outcome.fault))

\* C23: a candidate non-CLOSE order whose value (rounded quantity times price)
\* exceeds the account balance is never submitted, whether it is a buy or a
\* sell: the run returns an InsufficientBalance outcome instead.
C23_Original ==
    ( /\ ReachedRounding
      /\ ~ValueBelowMinimum
      /\ RLt(BalanceAtOrder, RoundedValue) )
    => /\ Submitted = << >>
       /\ outcome.result.error = "insufficient_balance"

\* the position of the coin on the exchange right after the order of the run
PositionAfterFill ==
    ApplyFill([c \in ExecCoins |-> outcome.position_at_order], outcome.result)[outcome.coin]

\* C29: a CLOSE that fills closes the entire position: after the order
\* submitted by copy_trade(coin, signalSize, CLOSE) is filled the follower is
\* flat in that coin, and a CLOSE never leaves a position of the opposite sign,
\* for every signal magnitude and every existing position size.
C29_Original ==
    ( /\ outcome.called
      /\ outcome.action_type = "CLOSE"
      /\ outcome.result.filled )
    => PositionAfterFill = FromInt(0)

-----------------------------------------------------------------------------
(* Properties of the limiter (checked under SpecLimiter)                   *)

IsAllowCall == lastOp.op = "should_allow_trade"

\* the claim's conditions, restated on the state before the call
CooldownFails(b, coin) ==
    /\ coin \in DOMAIN b.last_trade_time
    /\ now - b.last_trade_time[coin] < 30
RecentCount(b, coin) ==
    IF coin \in DOMAIN b.trade_history
    THEN Cardinality({i \in 1..Len(b.trade_history[coin]) :
                         b.trade_history[coin][i] > now - 3600})
    ELSE 0
CountWithBoundary(b, coin) ==
    IF coin \in DOMAIN b.trade_history
    THEN Cardinality({i \in 1..Len(b.trade_history[coin]) :
                         b.trade_history[coin][i] >= now - 3600})
    ELSE 0
HasStaleEntry(b, coin) ==
    /\ coin \in DOMAIN b.trade_history
    /\ \E i \in 1..Len(b.trade_history[coin]) : b.trade_history[coin][i] <= now - 3600
NewTotal(b, coin, trade_value) ==
    (IF coin \in DOMAIN b.position_values THEN b.position_values[coin] ELSE 0)
        + trade_value
\* newTotal > accountBalance * 0.25, on integers
OverLimit(b, coin, trade_value, account_balance) ==
    4 * NewTotal(b, coin, trade_value) > account_balance

\* C5: the checks run in the order cooldown, frequency, exposure and stop at the
\* first failing one: a cooldown rejection prunes nothing and compares no exposure,
\* a frequency rejection compares no exposure.
C5_ShortCircuit ==
    IsAllowCall =>
        LET b == lastOp.before
            c == lastOp.coin
        IN  /\ CooldownFails(b, c) =>
                /\ lastOp.result = FALSE
                /\ lastOp.checks = <<"cooldown">>
                /\ trade_history = b.trade_history
            /\ (~CooldownFails(b, c)
                  /\ RecentCount(b, c) >= max_trades_per_coin_per_hour) =>
                /\ lastOp.result = FALSE
                /\ lastOp.checks = <<"cooldown", "frequency">>
            /\ (~CooldownFails(b, c)
                  /\ RecentCount(b, c) < max_trades_per_coin_per_hour) =>
                lastOp.checks = <<"cooldown", "frequency", "exposure">>

\* a cooldown rejection that left an hour-old timestamp unpruned
C5_Witness ==
    /\ IsAllowCall
    /\ CooldownFails(lastOp.before, lastOp.coin)
    /\ HasStaleEntry(lastOp.before, lastOp.coin)
    /\ lastOp.result = FALSE
    /\ trade_history = lastOp.before.trade_history

\* C6 as stated: with minSecondsBetweenTrades=30, a call for a coin made less than
\* 30 s after the coin's first call (0 s, then 10 s and 20 s) returns false, and the
\* call 35 s after it returns true when frequency and exposure pass.
C6_Original ==
    (IsAllowCall /\ firstCallAt[lastOp.coin] < now) =>
        LET b == lastOp.before
            c == lastOp.coin
        IN  /\ now - firstCallAt[c] < 30 => lastOp.result = FALSE
            /\ (now - firstCallAt[c] = 35
                  /\ RecentCount(b, c) < max_trades_per_coin_per_hour
                  /\ ~OverLimit(b, c, lastOp.trade_value, lastOp.account_balance))
                => lastOp.result = TRUE

\* C6 amended: the cooldown runs from the coin's last recorded trade (record_trade),
\* not from an earlier should_allow_trade call: with a trade recorded at 0 s the
\* calls at 10 s and 20 s return false and the call at 35 s returns true (frequency
\* and exposure passing); a coin with no recorded trade is never in cooldown.
C6_CooldownFromRecord ==
    IsAllowCall =>
        LET b == lastOp.before
            c == lastOp.coin
            recorded == c \in DOMAIN b.last_trade_time
            passes == /\ RecentCount(b, c) < max_trades_per_coin_per_hour
                      /\ ~OverLimit(b, c, lastOp.trade_value, lastOp.account_balance)
        IN  /\ (recorded /\ now - b.last_trade_time[c] < 30) => lastOp.result = FALSE
            /\ (recorded /\ now - b.last_trade_time[c] >= 30 /\ passes)
                => lastOp.result = TRUE
            /\ (~recorded /\ passes) => lastOp.result = TRUE

\* first checked and recorded at 0 s, allowed again at 35 s
C6_Witness ==
    /\ IsAllowCall
    /\ firstCallAt[lastOp.coin] = 0
    /\ lastOp.coin \in DOMAIN lastOp.before.last_trade_time
    /\ lastOp.before.last_trade_time[lastOp.coin] = 0
    /\ now = 35
    /\ lastOp.result = TRUE

\* C7: once the cooldown check passes, the call is rejected whenever the trades of
\* the coin recorded strictly later than now - 1h number at least
\* maxTradesPerCoinPerHour; trades recorded exactly one hour ago or earlier are not
\* counted (with fewer strictly-later trades the call goes on to the exposure check).
C7_HourlyCap ==
    (IsAllowCall /\ ~CooldownFails(lastOp.before, lastOp.coin)) =>
        LET b == lastOp.before
            c == lastOp.coin
        IN  /\ RecentCount(b, c) >= max_trades_per_coin_per_hour
                => lastOp.result = FALSE
            /\ RecentCount(b, c) < max_trades_per_coin_per_hour
                => lastOp.result =
                     ~OverLimit(b, c, lastOp.trade_value, lastOp.account_balance)

\* a call allowed only because the trade recorded exactly one hour ago is not counted
C7_Witness ==
    /\ IsAllowCall
    /\ ~CooldownFails(lastOp.before, lastOp.coin)
    /\ CountWithBoundary(lastOp.before, lastOp.coin) >= max_trades_per_coin_per_hour
    /\ RecentCount(lastOp.before, lastOp.coin) < max_trades_per_coin_per_hour
    /\ lastOp.result = TRUE

ReachedExposure ==
    /\ IsAllowCall
    /\ Len(lastOp.checks) = 3
    /\ lastOp.checks[3] = "exposure"

\* C8: in every exposure check reached, newTotal strictly above
\* accountBalance * maxPositionPercent is rejected and newTotal equal to (or below)
\* that limit is allowed.
C8_ExposureBoundary ==
    ReachedExposure =>
        LET nt == NewTotal(lastOp.before, lastOp.coin, lastOp.trade_value)
        IN  /\ 4 * nt > lastOp.account_balance  => lastOp.result = FALSE
            /\ 4 * nt <= lastOp.account_balance => lastOp.result = TRUE

\* a tracked coin whose new total lands exactly on the limit, allowed
C8_Witness ==
    /\ ReachedExposure
    /\ lastOp.coin \in DOMAIN lastOp.before.position_values
    /\ 4 * NewTotal(lastOp.before, lastOp.coin, lastOp.trade_value)
          = lastOp.account_balance
    /\ lastOp.result = TRUE

\* C9 as stated: after any should_allow_trade call the limiter state is identical
\* to the state before the call.
C9_Original == IsAllowCall => LimiterState = lastOp.before

RecentOf(history) ==
    LET Keep(t) == t > now - 3600 IN SelectSeq(history, Keep)

\* C9 amended: should_allow_trade never changes lastTradeTime or
\* trackedPositionValue, nor the tradeTimestamps of any other coin, and never adds
\* a timestamp; its only mutation is to drop from tradeTimestamps[coin] the entries
\* one hour old or older (when the cooldown check passes).
C9_OnlyPrunes ==
    IsAllowCall =>
        LET b == lastOp.before
            c == lastOp.coin
        IN  /\ last_trade_time = b.last_trade_time
            /\ position_values = b.position_values
            /\ DOMAIN trade_history = DOMAIN b.trade_history
            /\ \A o \in DOMAIN trade_history :
                  o # c => trade_history[o] = b.trade_history[o]
            /\ c \in DOMAIN trade_history =>
                  \/ trade_history[c] = b.trade_history[c]
                  \/ /\ ~CooldownFails(b, c)
                     /\ trade_history[c] = RecentOf(b.trade_history[c])

\* a call that pruned an hour-old timestamp while another coin had history
C9_Witness ==
    /\ IsAllowCall
    /\ lastOp.coin \in DOMAIN trade_history
    /\ Len(trade_history[lastOp.coin])
          < Len(lastOp.before.trade_history[lastOp.coin])
    /\ \E o \in DOMAIN trade_history : o # lastOp.coin

BlockedBy(st, coin) ==
    LET out == ShouldAllowOutcome(st.trade_history, st.last_trade_time,
                                  st.position_values, now, coin, 0, 0)
    IN  out.checks[Len(out.checks)]

\* C10: reset_position(coin) removes only trackedPositionValue[coin]; timestamps and
\* last trade times of every coin and the tracked value of every other coin are
\* unchanged, so a coin blocked by cooldown or by the hourly cap before the reset is
\* still blocked right after it.
C10_ResetFrame ==
    lastOp.op = "reset_position" =>
        LET b == lastOp.before
            c == lastOp.coin
        IN  /\ trade_history = b.trade_history
            /\ last_trade_time = b.last_trade_time
            /\ DOMAIN position_values = (DOMAIN b.position_values) \ {c}
            /\ \A o \in DOMAIN position_values :
                  position_values[o] = b.position_values[o]
            /\ BlockedBy(b, c) \in {"cooldown", "frequency"}
                  => BlockedBy(LimiterState, c) = BlockedBy(b, c)

\* a tracked coin at its hourly cap is reset, with another coin tracked
C10_Witness ==
    /\ lastOp.op = "reset_position"
    /\ lastOp.coin \in DOMAIN lastOp.before.position_values
    /\ lastOp.coin \notin DOMAIN position_values
    /\ BlockedBy(lastOp.before, lastOp.coin) = "frequency"
    /\ BlockedBy(LimiterState, lastOp.coin) = "frequency"

-----------------------------------------------------------------------------
(* Properties of rebalance_position (checked under SpecRebalance)          *)

\* the runs that have returned
RCalls == {i \in 1..Len(rebalances) : rebalances[i].done}

AllFilled(call) == \A i \in 1..Len(call.result.fills) : call.result.fills[i]

\* the position query of the call returned the position the follower holds
ReadPosition(call) == call.result.current_size = call.position_before

SameArguments(a, b) ==
    /\ a.coin = b.coin
    /\ a.target_value = b.target_value
    /\ a.current_price = b.current_price
    /\ a.is_long = b.is_long

\* the position a rebalance aims at: the target size, flat below the minimum
EffectiveTarget(call) ==
    IF RLe(FromInt(min_order_value), call.target_value)
    THEN call.result.target_size ELSE FromInt(0)

\* the second run began after the first had returned, and has returned itself
IsRepeat ==
    /\ Len(rebalances) = 2
    /\ rebalances[1].done
    /\ rebalances[2].done
    /\ rebalances[2].after_others
    /\ SameArguments(rebalances[1], rebalances[2])
    /\ AllFilled(rebalances[1])
    /\ ReadPosition(rebalances[1])
    /\ ReadPosition(rebalances[2])

\* a second run with the same arguments that read the position between the
\* close and the open of the first: both opens fill, the position ends at twice
\* the target
SecondRunStacks ==
    /\ Len(rebalances) = 2
    /\ rebalances[1].done /\ rebalances[2].done
    /\ SameArguments(rebalances[1], rebalances[2])
    /\ ~rebalances[2].after_others
    /\ AllFilled(rebalances[1]) /\ AllFilled(rebalances[2])
    /\ Len(rebalances[1].result.orders) = 2
    /\ rebalances[2].position_before = FromInt(0)
    /\ rebalances[1].result.target_size # FromInt(0)
    /\ positions["SOL"] = RAdd(rebalances[1].result.target_size,
                               rebalances[1].result.target_size)

\* a skip decided by the double sizeDiff * price, 9.999999999999998, where the
\* exact change is worth the minimum itself
SkipsAtTie ==
    \E i \in RCalls :
        /\ rebalances[i].position_before = R(4, 5)
        /\ rebalances[i].target_value = FromInt(14)
        /\ rebalances[i].current_price = FromInt(5)
        /\ rebalances[i].is_long
        /\ rebalances[i].result.skipped

\* an adjustment decided by the double 0.8 * 0.9, 0.7200000000000001, where the
\* exact change is nine tenths of the position
AdjustsAtTie ==
    \E i \in RCalls :
        /\ rebalances[i].position_before = R(4, 5)
        /\ rebalances[i].target_value = R(114, 5)
        /\ rebalances[i].current_price = FromInt(15)
        /\ rebalances[i].is_long
        /\ rebalances[i].result.action = "ADJUST"
        /\ rebalances[i].result.orders[1].sz = R(18, 25)

\* C11: rebalance is idempotent.  When it is called twice in succession with
\* identical arguments and every order of the first call filled in full, the
\* first call left the position at its target, and the second call submits no
\* order and returns a skip.
C11_Idempotent ==
    IsRepeat =>
        /\ rebalances[1].result.orders # << >> =>
               rebalances[1].position_after = EffectiveTarget(rebalances[1])
        /\ rebalances[2].result.orders = << >>
        /\ rebalances[2].result.skipped
        /\ ~rebalances[2].result.success
        /\ rebalances[2].position_after = rebalances[2].position_before

C11_Witness ==
    /\ IsRepeat
    /\ Len(rebalances[1].result.orders) = 2
    /\ rebalances[1].position_before # rebalances[1].position_after
    /\ rebalances[2].result.skipped

\* nothing but the orders of the run changed the position between its read and
\* its last order
Undisturbed(call) == call.seen = PositionsAfter(call.position_before, call.result)

\* the position on the exchange when order k of the run reached it
PositionAtOrder(call, k) ==
    IF ~call.result.fills[k] THEN call.seen[k]
    ELSE IF call.result.orders[k].is_buy
    THEN RSub(call.seen[k], call.result.orders[k].sz)
    ELSE RAdd(call.seen[k], call.result.orders[k].sz)

\* the quantities the claims about one rebalance call speak of, compared as the
\* doubles of the run compare: sizeDiff is the double targetSize - currentSize
SizeDiffOf(call) ==
    SizeDiffFloat(call.target_value, call.current_price, call.is_long,
                  call.result.current_size)

\* |sizeDiff * price| < minOrderValue
ChangeBelowMinimum(call) ==
    FloatLt(RAbs(RMul(call.result.size_diff, call.current_price)),
            FromInt(min_order_value),
            FAbs(FMul(SizeDiffOf(call), FFromRat(call.current_price))),
            FInt(min_order_value))

\* |sizeDiff| < 0.9 * |currentSize|
ChangeBelowFraction(call) ==
    FloatLt(RAbs(call.result.size_diff),
            RMul(RAbs(call.result.current_size), ReopenFraction),
            FAbs(SizeDiffOf(call)),
            FMul(FAbs(FFromRat(call.result.current_size)), FFromRat(ReopenFraction)))

BigChange(call) ==
    /\ call.result.current_size # FromInt(0)
    /\ ~ChangeBelowMinimum(call)
    /\ ~ChangeBelowFraction(call)

FullClose(call) ==
    Order(call.coin, RLt(call.result.current_size, FromInt(0)),
          RAbs(call.result.current_size))

OpenTarget(call) == Order(call.coin, call.is_long, RAbs(call.result.target_size))

\* C12 as stated: when currentSize != 0, |targetValue| >= minOrderValue,
\* |sizeDiff * price| >= minOrderValue and |sizeDiff| >= 0.9 * |currentSize|,
\* rebalance submits exactly two orders: the full close, then the open.
C12_Original ==
    \A i \in RCalls :
        ( /\ BigChange(rebalances[i])
          /\ RLe(FromInt(min_order_value), RAbs(rebalances[i].target_value)) )
        => rebalances[i].result.orders =
               <<FullClose(rebalances[i]), OpenTarget(rebalances[i])>>

\* C12 amended: when currentSize != 0, targetValue >= minOrderValue (the signed
\* value), |sizeDiff * price| >= minOrderValue and |sizeDiff| >= 0.9 * |currentSize|,
\* rebalance submits the full close first and then the open with quantity
\* |targetSize| and isBuy = isLong, exactly these two, whatever the close
\* submission returns; only a close submission that raises ends the invocation
\* after the close alone, as a failure.
C12_CloseThenOpen ==
    \A i \in RCalls :
        ( /\ BigChange(rebalances[i])
          /\ RLe(FromInt(min_order_value), rebalances[i].target_value) )
        => IF rebalances[i].fault = "close_raise"
           THEN /\ rebalances[i].result.orders = <<FullClose(rebalances[i])>>
                /\ ~rebalances[i].result.success
                /\ ~rebalances[i].result.skipped
           ELSE rebalances[i].result.orders =
                    <<FullClose(rebalances[i]), OpenTarget(rebalances[i])>>

\* a long position rebalanced to a short target: sell to close, sell to open
C12_Witness ==
    \E i \in RCalls :
        /\ BigChange(rebalances[i])
        /\ RLe(FromInt(min_order_value), rebalances[i].target_value)
        /\ RLt(FromInt(0), rebalances[i].result.current_size)
        /\ ~rebalances[i].is_long
        /\ Len(rebalances[i].result.orders) = 2
        /\ ~rebalances[i].result.orders[1].is_buy
        /\ ~rebalances[i].result.orders[2].is_buy

\* C13: in the close-then-open path the open order is submitted only after the
\* existing position has been fully closed: the position is flat when the second
\* order goes out, so the second order neither flips nor stacks onto a position.
C13_Original ==
    \A i \in RCalls :
        Len(rebalances[i].result.orders) = 2 =>
            PositionAtOrder(rebalances[i], 2) = FromInt(0)

\* C14: whenever |targetValue| < minOrderValue and currentSize != 0, rebalance
\* submits exactly one order, the full close (quantity |currentSize|, isBuy iff
\* currentSize < 0), whatever the size difference, also when |sizeDiff * price|
\* is itself below minOrderValue.
C14_CloseBelowMinimum ==
    \A i \in RCalls :
        ( /\ RLt(RAbs(rebalances[i].target_value), FromInt(min_order_value))
          /\ rebalances[i].result.current_size # FromInt(0) )
        => rebalances[i].result.orders = <<FullClose(rebalances[i])>>

\* a close of a short position whose size difference is worth less than the minimum
C14_Witness ==
    \E i \in RCalls :
        /\ RLt(RAbs(rebalances[i].target_value), FromInt(min_order_value))
        /\ RLt(rebalances[i].result.current_size, FromInt(0))
        /\ RLt(RAbs(RMul(rebalances[i].result.size_diff, rebalances[i].current_price)),
               FromInt(min_order_value))
        /\ rebalances[i].result.orders = <<FullClose(rebalances[i])>>
        /\ rebalances[i].result.action = "CLOSE"
        /\ rebalances[i].position_after = FromInt(0)

Notional(order, call) == RAbs(RMul(order.sz, call.current_price))

LastOrder(call) == call.result.orders[Len(call.result.orders)]

\* C15: when the CLOSE condition does not hold and |sizeDiff * price| is below
\* minOrderValue, rebalance submits no order and returns a skip; and no rebalance
\* submits an open or adjust order whose notional is below minOrderValue.
C15_SkipSmallChange ==
    \A i \in RCalls :
        LET call == rebalances[i]
            res  == call.result
        IN  /\ ( /\ ~( /\ RLt(RAbs(call.target_value), FromInt(min_order_value))
                       /\ res.current_size # FromInt(0) )
                 /\ ChangeBelowMinimum(call) )
               => /\ res.orders = << >>
                  /\ res.skipped
                  /\ ~res.success
                  /\ call.position_after = call.position_before
            /\ ( res.action \in {"OPEN", "ADJUST"} /\ res.orders # << >> )
               => RLe(FromInt(min_order_value), Notional(LastOrder(call), call))

\* a flat follower asked for a position worth less than the minimum
C15_Witness ==
    \E i \in RCalls :
        /\ rebalances[i].result.current_size = FromInt(0)
        /\ rebalances[i].result.size_diff # FromInt(0)
        /\ rebalances[i].result.skipped
        /\ rebalances[i].result.orders = << >>

ModerateChange(call) ==
    /\ call.result.current_size # FromInt(0)
    /\ RLe(FromInt(min_order_value), RAbs(call.target_value))
    /\ ~ChangeBelowMinimum(call)
    /\ ChangeBelowFraction(call)

\* C16: when currentSize != 0, |targetValue| >= minOrderValue, |sizeDiff * price|
\* >= minOrderValue and |sizeDiff| < 0.9 * |currentSize|, rebalance submits
\* exactly one order, with quantity |sizeDiff| and isBuy iff sizeDiff > 0, and
\* no close order.
C16_Adjust ==
    \A i \in RCalls :
        ModerateChange(rebalances[i]) =>
            /\ rebalances[i].result.orders =
                   << Order(rebalances[i].coin,
                            RLt(FromInt(0), rebalances[i].result.size_diff),
                            RAbs(rebalances[i].result.size_diff)) >>
            /\ rebalances[i].result.action = "ADJUST"

\* a long position trimmed by a sell of half its size
C16_Witness ==
    \E i \in RCalls :
        /\ ModerateChange(rebalances[i])
        /\ RLt(rebalances[i].result.size_diff, FromInt(0))
        /\ RLt(FromInt(0), rebalances[i].result.current_size)
        /\ Len(rebalances[i].result.orders) = 1
        /\ ~rebalances[i].result.orders[1].is_buy
        /\ rebalances[i].result.success
        /\ Undisturbed(rebalances[i])
        /\ rebalances[i].position_after = rebalances[i].result.target_size

\* the close-then-open path taken with a target below the minimum
CloseOnlyCase(call) ==
    /\ BigChange(call)
    /\ RLe(FromInt(min_order_value), RAbs(call.target_value))
    /\ RLt(call.target_value, FromInt(min_order_value))

\* C17: in the close-then-open path, if targetValue < minOrderValue the rebalance
\* ends after the close alone: exactly one order, the full close, is submitted
\* and no open follows; once the close submission has returned, the outcome is
\* a completed close (success, action CLOSED) and not a skip.
C17_CloseOnly ==
    \A i \in RCalls :
        CloseOnlyCase(rebalances[i]) =>
            /\ rebalances[i].result.orders = <<FullClose(rebalances[i])>>
            /\ ~rebalances[i].result.skipped
            /\ rebalances[i].fault # "close_raise" =>
                   /\ rebalances[i].result.success
                   /\ rebalances[i].result.action = "CLOSED"

C17_Witness ==
    \E i \in RCalls :
        /\ CloseOnlyCase(rebalances[i])
        /\ rebalances[i].result.success
        /\ rebalances[i].result.action = "CLOSED"
        /\ Len(rebalances[i].result.orders) = 1
        /\ rebalances[i].position_before # FromInt(0)
        /\ rebalances[i].position_after = FromInt(0)

\* a submission that came back Rejected or Failed is the last of its invocation
NoSubmissionAfterFailure(orders, fills) ==
    \A j \in 1..Len(orders) : ~fills[j] => j = Len(orders)

\* C24: each invocation of the core (copy_trade or rebalance_position) submits
\* at most one order, and after a submission comes back Rejected or Failed no
\* further submission is made in that invocation.
C24_Original ==
    /\ Len(Submitted) <= 1
    /\ \A i \in RCalls :
          /\ Len(rebalances[i].result.orders) <= 1
          /\ NoSubmissionAfterFailure(rebalances[i].result.orders,
                                      rebalances[i].result.fills)

\* the copy_trade half of C24, which the code keeps
C24_CopyTradeSingleOrder == Len(Submitted) <= 1

\* C25: no collaborator failure is silently swallowed: when a collaborator call
\* of an invocation raises, the invocation returns a Failed outcome carrying
\* the cause, and submits no order computed from a substituted default (here
\* the flat position that stands in for a failed position query).
C25_Original ==
    \A i \in RCalls :
        /\ rebalances[i].fault = "positions_raise" =>
               /\ rebalances[i].result.orders = << >>
               /\ ~rebalances[i].result.success
               /\ rebalances[i].result.error = "exception"
        /\ ( rebalances[i].fault \in {"close_raise", "order_raise"}
             /\ rebalances[i].result.orders # << >> ) =>
               \/ AllFilled(rebalances[i])
               \/ /\ ~rebalances[i].result.success
                  /\ rebalances[i].result.error = "exception"

\* two sizes on opposite sides of zero
OppositeSigns(a, b) ==
    \/ RLt(a, FromInt(0)) /\ RLt(FromInt(0), b)
    \/ RLt(FromInt(0), a) /\ RLt(b, FromInt(0))

SameSign(a, b) ==
    \/ RLt(a, FromInt(0)) /\ RLt(b, FromInt(0))
    \/ RLt(FromInt(0), a) /\ RLt(FromInt(0), b)

\* C28: whenever rebalance takes the single-order ADJUST path, currentSize and
\* targetSize are nonzero with the same sign, the one order, once filled, keeps
\* the sign of the position and leaves it equal to targetSize; and whenever
\* currentSize and targetSize lie on opposite sides of zero the first order is
\* the full close of the position, so that a position changes sign only
\* through two orders.  The position is the one the run read: what the order
\* leaves is stated for a run no other run's order came in between.
C28_AdjustKeepsSign ==
    \A i \in RCalls :
        LET call == rebalances[i]
            res  == call.result
        IN  /\ res.action = "ADJUST" =>
                  /\ SameSign(res.current_size, res.target_size)
                  /\ ReadPosition(call)
                  /\ Len(res.orders) = 1
                  /\ (AllFilled(call) /\ Undisturbed(call)) =>
                        /\ call.position_after = res.target_size
                        /\ SameSign(call.position_before, call.position_after)
            /\ OppositeSigns(res.current_size, res.target_size) =>
                  /\ res.orders # << >>
                  /\ res.orders[1] = Order(call.coin, RLt(res.current_size, FromInt(0)),
                                           RAbs(res.current_size))
            /\ (ReadPosition(call) /\ Undisturbed(call)
                   /\ OppositeSigns(call.position_before, call.position_after)) =>
                  /\ Len(res.orders) = 2
                  /\ res.action = "OPEN"

\* a short position enlarged by one filled sell, and a position taken to the
\* other side of zero by a filled close and a filled open
C28_Witness ==
    /\ \E i \in RCalls :
          /\ rebalances[i].result.action = "ADJUST"
          /\ rebalances[i].result.success
          /\ RLt(rebalances[i].result.current_size, FromInt(0))
          /\ RLt(rebalances[i].result.size_diff, FromInt(0))
          /\ Undisturbed(rebalances[i])
          /\ rebalances[i].position_after = rebalances[i].result.target_size
    /\ \E j \in RCalls :
          /\ ReadPosition(rebalances[j])
          /\ Undisturbed(rebalances[j])
          /\ OppositeSigns(rebalances[j].position_before, rebalances[j].position_after)
          /\ AllFilled(rebalances[j])
          /\ Len(rebalances[j].result.orders) = 2

-----------------------------------------------------------------------------
(* Properties of the limiter behind its gate (checked under SpecGated)     *)

\* recorded trades of the coin with a timestamp in (now - 1h, now]
InWindow(coin) ==
    { i \in 1..Len(recordLog[coin]) :
          /\ now - SecondsPerHour < recordLog[coin][i]
          /\ recordLog[coin][i] <= now }

\* C26: when record_trade(coin, v) is called only right after a
\* should_allow_trade(coin, v, balance) that returned true and the clock does not
\* go back, at every moment at most max_trades_per_coin_per_hour recorded trades
\* of a coin lie in the window (now - 1h, now], and two consecutive recorded
\* trades of a coin are at least min_time_between_trades seconds apart.
C26_RateBounds ==
    \A coin \in DOMAIN recordLog :
        /\ Cardinality(InWindow(coin)) <= max_trades_per_coin_per_hour
        /\ \A i \in 1..(Len(recordLog[coin]) - 1) :
              recordLog[coin][i + 1] - recordLog[coin][i] >= min_time_between_trades

\* a fourth trade of a coin, recorded when the first has just left the window
C26_Witness ==
    \E coin \in DOMAIN recordLog :
        /\ Len(recordLog[coin]) = 4
        /\ Cardinality(InWindow(coin)) = max_trades_per_coin_per_hour
        /\ recordLog[coin][2] - recordLog[coin][1] = min_time_between_trades
        /\ lastOp.op = "record_trade"

\* the exposure limit of the run: accountBalance * maxPositionPercent
ExposureLimit == RMul(accountValue, max_position_percent)

\* C27: with a constant account balance and non-negative trade values, when
\* record_trade(coin, v) is called only right after should_allow_trade(coin, v,
\* balance) returned true, the tracked position value of a coin never exceeds
\* balance * max_position_percent, whatever record_trade and reset_position
\* calls interleave for whatever coins.
C27_ExposureBound ==
    \A coin \in DOMAIN position_values :
        RLe(FromInt(position_values[coin]), ExposureLimit)

\* a coin at its limit after a reset and two further recorded trades, while the
\* other coin is tracked as well
C27_Witness ==
    \E coin \in DOMAIN position_values :
        /\ FromInt(position_values[coin]) = ExposureLimit
        /\ Len(recordLog[coin]) >= 3
        /\ DOMAIN position_values = Coins
        /\ lastOp.op = "record_trade"
        /\ lastOp.coin = coin

SizingNext == CalculatePositionSize \/ AccountValueChanges

\* the sizing engine alone: every configuration, every input of the domains
SizingInit == InitSizing /\ InitLimiter /\ InitExecIdle
SpecSizing == SizingInit /\ [][SizingNext]_vars

\* one fixed TradeExecutor configuration, for the specifications that do not size
InitSizingIdle ==
    /\ cfg = [ sizing_method |-> "fixed_ratio", account_ratio |-> R(1, 10),
               max_position_size |-> FromInt(10), fixed_size |-> FromInt(1),
               wallet_percentage |-> R(1, 10), wallet_fixed_amount |-> FromInt(10) ]
    /\ accountValue = FromInt(100)
    /\ sizeCall = NoSizeCall

LimiterNext ==
    \/ \E coin \in Coins, trade_value \in TradeValues, account_balance \in AccountBalances :
          should_allow_trade(coin, trade_value, account_balance)
    \/ \E coin \in Coins, trade_value \in RecordedValues : record_trade(coin, trade_value)
    \/ \E coin \in Coins : reset_position(coin)
    \/ Tick

\* the limiter driven by an arbitrary caller
LimiterInit == InitSizingIdle /\ InitLimiter /\ InitExecIdle
SpecLimiter == LimiterInit /\ [][LimiterNext]_vars

\* the limiter driven for one coin, noting when the coin was first checked
CooldownNext ==
    \/ \E trade_value \in TradeValues, account_balance \in AccountBalances :
          should_allow_trade_logged("SOL", trade_value, account_balance)
    \/ \E trade_value \in RecordedValues : record_trade("SOL", trade_value)
    \/ reset_position("SOL")
    \/ Tick

SpecCooldown == LimiterInit /\ [][CooldownNext]_vars

\* the account balance of a gated run, the same at every call
InitSizingGated ==
    /\ cfg = [ sizing_method |-> "fixed_ratio", account_ratio |-> R(1, 10),
               max_position_size |-> FromInt(10), fixed_size |-> FromInt(1),
               wallet_percentage |-> R(1, 10), wallet_fixed_amount |-> FromInt(10) ]
    /\ accountValue \in {FromInt(b) : b \in AccountBalances}
    /\ sizeCall = NoSizeCall

\* the limiter behind its gate: a trade is recorded only once it was allowed
GatedNext ==
    \/ \E coin \in Coins, trade_value \in TradeValues :
          should_allow_trade(coin, trade_value, accountValue[1])
    \/ record_trade_gated
    \/ \E coin \in Coins : reset_position(coin)
    \/ TickGated

GatedInit == InitSizingGated /\ InitLimiter /\ InitExecIdle
SpecGated == GatedInit /\ [][GatedNext]_vars

InitSizingExec ==
    /\ cfg \in ExecConfigs
    /\ accountValue \in ExecAccountValues
    /\ sizeCall = NoSizeCall

\* one run of trade_executor.py against the exchange, one blocking call at a time,
\* and what happens to the account meanwhile: before the run, between any two of
\* its calls and after it, the account value moves and the other programs of the
\* repository that place orders (MaxOtherRuns runs of them) read the account and
\* send their orders.
ExecInit == InitSizingExec /\ InitLimiter /\ InitExec
ExecNext ==
    \/ CopyTradeStart
    \/ CopyTradeReadPosition
    \/ CopyTradeAllMids
    \/ CopyTradeSizingBalance
    \/ CopyTradeMeta
    \/ CopyTradeCheckBalance
    \/ CopyTradeSubmit
    \/ ExecAccountValueChanges
    \/ OpenEth
    \/ TestBuyRead
    \/ SyncPositionsRead
    \/ OpenRemainingRead
    \/ CloseOut
    \/ TestBuyOrder
    \/ SyncPositionsOrder
    \/ OpenRemainingOrder
    \/ RebalanceOrder
SpecExec == ExecInit /\ [][ExecNext]_vars

\* two runs of portfolio_executor.py against the exchange, one after the other or
\* the second between two calls of the first
RebalanceInit == InitSizingIdle /\ InitLimiter /\ InitRebalance
RebalanceNext == Rebalance \/ RebalanceAgain \/ RebalanceOrder
SpecRebalance == RebalanceInit /\ [][RebalanceNext]_vars

====
